---- MODULE Spec2Model ----
(***************************************************************************)
(* Arcturus storage engine: buffer pool (BufferManager), paged file        *)
(* (PageFileHandle), record file (RecordFileHandle) and B+-tree index      *)
(* (IndexHandle).  Each layer has its own specification over the shared    *)
(* variable list; a layer's actions leave the other layers' variables      *)
(* unchanged.                                                              *)
(***************************************************************************)
EXTENDS Integers, Sequences, FiniteSets, TLC

VARIABLES bm, disk, ev, expect, lastGet, trace, pf, rm, ix

bpVars == <<bm, disk, ev, expect, lastGet, trace>>

vars == <<bm, disk, ev, expect, lastGet, trace, pf, rm, ix>>

(***************************************************************************)
(* Bounds of the model.                                                    *)
(***************************************************************************)
\* frames in the pool at construction (Vec::with_capacity(128) in the source)
PoolCap == 1
\* page slots of the file the buffer pool specification reads: 0..BpMaxSlot
BpMaxSlot == 1
\* get_page is not called on a frame whose pin_count has reached MaxPin
MaxPin == 2
\* page contents are abstracted to one value in 0..MaxByte
MaxByte == 1

(***************************************************************************)
(* Program constants.                                                      *)
(***************************************************************************)
\* the low 16 bits of a page number are the page's slot in its file
SlotModulus == 65536
\* BUFFER_SIZE, what PageFileManager::new passes to BufferManager::new as page_size
page_size == 128
\* size_of::<PageFileHeader>()
PageFileHeaderSize == 16
\* file_num of the first file a PageFileManager creates
FileNum == 1

\* ptr::null()
Null == -1
\* contents of a page slot after a short write
Torn == 0 - 2

Bytes == 0..MaxByte

PageNum(slot) == FileNum * SlotModulus + slot

BpPages == {PageNum(s) : s \in 0..BpMaxSlot}

(***************************************************************************)
(* BufferPage and BufferManager                                            *)
(***************************************************************************)
BufferPage_new ==
  [data |-> Null, next |-> -1, prev |-> -1, dirty |-> FALSE,
   pin_count |-> 0, page_num |-> 0, fp |-> FALSE]

BufferManager_new ==
  [buffer_table |-> [i \in 0..(PoolCap - 1) |->
                       IF i < PoolCap - 1
                       THEN [BufferPage_new EXCEPT !.next = i + 1]
                       ELSE BufferPage_new],
   cap |-> PoolCap,
   num_pages |-> 0,
   first |-> -1,
   last |-> -1,
   free |-> 0,
   page_table |-> <<>>]

\* the values a read through a frame's data pointer can yield: read_page
\* stores the pointer of a Vec that is dropped at the end of the statement,
\* so the buffer is freed memory and its contents are not determined by what
\* was last stored through the pointer.
BufRead(d) == Bytes

get_page_offset(index) == PageFileHeaderSize + index * page_size

Offsets == {get_page_offset(s) : s \in 0..BpMaxSlot}

\* resize_buffer without the linking of the new frames
resize_buffer_unlinked(b) ==
  LET cap == b.cap
      start == cap
  IN IF b.num_pages < cap THEN b
     ELSE [b EXCEPT
             !.buffer_table =
                [i \in 0..(2 * cap - 1) |->
                   IF i < cap THEN b.buffer_table[i] ELSE BufferPage_new],
             !.cap = 2 * cap,
             !.free = start]

resize_buffer(b) ==
  LET cap == b.cap
      start == cap
  IN IF b.num_pages < cap THEN b
     ELSE [b EXCEPT
             !.buffer_table =
                [i \in 0..(2 * cap - 1) |->
                   IF i < cap THEN b.buffer_table[i]
                   ELSE IF i < 2 * cap - 1
                        THEN [BufferPage_new EXCEPT !.next = i + 1]
                        ELSE BufferPage_new],
             !.cap = 2 * cap,
             !.free = start]

\* res is the PageFileError returned; wres is the outcome of fp.write_at and
\* v the bytes write_at takes from the frame's buffer.
write_page(b, dsk, page_num, index, wres, v) ==
  LET file_page_index == page_num % SlotModulus
      off == get_page_offset(file_page_index)
  IN IF b.buffer_table[index].data = Null
     THEN [disk |-> dsk, res |-> "DataUnintialized", wrote |-> FALSE]
     ELSE IF wres = "Okay"
     THEN [disk |-> [dsk EXCEPT ![off] = v], res |-> "Okay", wrote |-> TRUE]
     ELSE IF wres = "IncompleteWrite"
     THEN [disk |-> [dsk EXCEPT ![off] = Torn], res |-> "IncompleteWrite",
           wrote |-> TRUE]
     ELSE [disk |-> dsk, res |-> "WriteAtError", wrote |-> TRUE]

\* unlink that leaves the frame on the unused list
unlink_skipped(b, index) == b

unlink(b, index) ==
  LET page == b.buffer_table[index]
      t1 == IF page.prev = -1 THEN b.buffer_table
            ELSE [b.buffer_table EXCEPT ![page.prev].next = page.next]
      f1 == IF page.prev = -1 THEN page.next ELSE b.first
      t2 == IF page.next = -1 THEN t1
            ELSE [t1 EXCEPT ![page.next].prev = page.prev]
      l2 == IF page.next = -1 THEN page.prev ELSE b.last
  IN [b EXCEPT !.buffer_table = t2, !.first = f1, !.last = l2]

link(b, index) ==
  LET t1 == [b.buffer_table EXCEPT ![index].next = b.first]
      t2 == IF b.first # -1 THEN [t1 EXCEPT ![b.first].prev = index] ELSE t1
  IN [b EXCEPT !.buffer_table = t2,
               !.first = index,
               !.last = IF b.last = -1 THEN index ELSE b.last]

RemoveKey(f, k) == [x \in (DOMAIN f) \ {k} |-> f[x]]

PutKey(f, k, v) == [x \in (DOMAIN f) \cup {k} |-> IF x = k THEN v ELSE f[x]]

\* what free_page does to frame `index` of b1 once the frame is unlinked
clear_frame(b1, index, page_num) ==
  [b1 EXCEPT
     !.page_table = RemoveKey(b1.page_table, page_num),
     !.buffer_table[index] =
        [@ EXCEPT !.data = 0, !.dirty = FALSE, !.page_num = 0,
                  !.next = b1.free, !.prev = -1, !.fp = FALSE],
     !.free = index,
     !.num_pages = b1.num_pages - 1]

\* free_page without the write back of a dirty frame
free_page_without_write(b, dsk, index, wres, v) ==
  IF index = -1 THEN [bm |-> b, disk |-> dsk, res |-> "NoPage", wrote |-> FALSE]
  ELSE IF b.buffer_table[index].pin_count # 0
  THEN [bm |-> b, disk |-> dsk, res |-> "PagePinned", wrote |-> FALSE]
  ELSE IF b.first # index /\ b.buffer_table[index].prev = -1
  THEN [bm |-> b, disk |-> dsk, res |-> "PageFreed", wrote |-> FALSE]
  ELSE [bm |-> clear_frame(unlink(b, index), index, b.buffer_table[index].page_num),
        disk |-> dsk, res |-> "Okay", wrote |-> FALSE]

\* index -1 stands for (-1 as usize), what `self.last as usize` is when the
\* unused list is empty.  wrote tells whether write_at was called.
free_page(b, dsk, index, wres, v) ==
  LET after_write(w, page_num) ==
        IF w.res # "Okay"
        THEN [bm |-> b, disk |-> w.disk, res |-> w.res, wrote |-> w.wrote]
        ELSE [bm |-> clear_frame(unlink(b, index), index, page_num),
              disk |-> w.disk, res |-> "Okay", wrote |-> w.wrote]
  IN IF index = -1
     THEN [bm |-> b, disk |-> dsk, res |-> "NoPage", wrote |-> FALSE]
     ELSE IF index > b.cap
     THEN [bm |-> b, disk |-> dsk, res |-> "OutOfIndex", wrote |-> FALSE]
     ELSE IF b.buffer_table[index].pin_count # 0
     THEN [bm |-> b, disk |-> dsk, res |-> "PagePinned", wrote |-> FALSE]
     ELSE IF b.first # index /\ b.buffer_table[index].prev = -1
     THEN [bm |-> b, disk |-> dsk, res |-> "PageFreed", wrote |-> FALSE]
     ELSE IF b.buffer_table[index].dirty /\ ~b.buffer_table[index].fp
     THEN [bm |-> b, disk |-> dsk, res |-> "NoFilePointer", wrote |-> FALSE]
     ELSE after_write(
            IF b.buffer_table[index].dirty
            THEN write_page(b, dsk, b.buffer_table[index].page_num, index, wres, v)
            ELSE [disk |-> dsk, res |-> "Okay", wrote |-> FALSE],
            b.buffer_table[index].page_num)

update_page(b, index) ==
  LET page == b.buffer_table[index]
      pin_count == page.pin_count
      prev == page.prev
      next == page.next
  IN IF pin_count > 1
     THEN [b EXCEPT !.buffer_table[index].pin_count = @ + 1]
     ELSE
     LET t1 == IF prev = -1 THEN b.buffer_table
               ELSE [b.buffer_table EXCEPT ![prev].next = next]
         f1 == IF prev = -1 THEN next ELSE b.first
         t2 == IF next = -1 THEN t1 ELSE [t1 EXCEPT ![next].prev = prev]
         l2 == IF next = -1 THEN prev ELSE b.last
     IN [b EXCEPT !.buffer_table =
                     [t2 EXCEPT ![index] =
                        [@ EXCEPT !.pin_count = pin_count + 1,
                                  !.prev = -1, !.next = -1]],
                  !.first = f1, !.last = l2]

\* rres is the outcome of fp.read_at
read_page(b, dsk, page_num, index, rres) ==
  LET file_page_index == page_num % SlotModulus
      off == get_page_offset(file_page_index)
      d0 == IF b.buffer_table[index].data = Null THEN 0
            ELSE b.buffer_table[index].data
  IN IF rres = "ReadAtError"
     THEN [bm |-> [b EXCEPT !.buffer_table[index].data = d0],
           res |-> "ReadAtError"]
     ELSE IF rres = "IncompleteRead"
     THEN [bm |-> [b EXCEPT !.buffer_table[index].data = Torn],
           res |-> "IncompleteRead"]
     ELSE [bm |-> [b EXCEPT !.buffer_table[index].data = dsk[off]],
           res |-> "Okay"]

\* res: "Some" (the frame `index` is returned), "None", or "panic" (the
\* frame table is indexed with (-1 as usize)).
get_page(b, dsk, page_num, wres, rres, v) ==
  LET cap == b.cap
      index == IF page_num \in DOMAIN b.page_table
               THEN b.page_table[page_num] ELSE cap
      install(b2, newpage_index) ==
        [b2 EXCEPT
           !.page_table = PutKey(b2.page_table, page_num, newpage_index),
           !.num_pages = b2.num_pages + 1,
           !.free = b2.buffer_table[newpage_index].next,
           !.buffer_table[newpage_index] =
              [@ EXCEPT !.next = -1, !.pin_count = 1,
                        !.page_num = page_num, !.fp = TRUE]]
      after_read(rd, d1, newpage_index, wrote) ==
        IF rd.res # "Okay"
        THEN [bm |-> rd.bm, disk |-> d1, res |-> "None", index |-> -1,
              wrote |-> wrote, read |-> FALSE]
        ELSE [bm |-> install(rd.bm, newpage_index), disk |-> d1, res |-> "Some",
              index |-> newpage_index, wrote |-> wrote, read |-> TRUE]
      load(b1, d1, wrote) ==
        IF b1.free = -1
        THEN [bm |-> b1, disk |-> d1, res |-> "panic", index |-> -1,
              wrote |-> wrote, read |-> FALSE]
        ELSE after_read(read_page(b1, d1, page_num, b1.free, rres), d1,
                        b1.free, wrote)
      after_free(fr) ==
        IF fr.res \in {"Okay", "OutOfIndex", "PageFreed", "PagePinned"}
        THEN load(fr.bm, fr.disk, fr.wrote)
        ELSE IF fr.res = "NoPage"
        THEN load(resize_buffer(fr.bm), fr.disk, fr.wrote)
        ELSE [bm |-> fr.bm, disk |-> fr.disk, res |-> "None", index |-> -1,
              wrote |-> fr.wrote, read |-> FALSE]
  IN IF index < cap
     THEN [bm |-> update_page(b, index), disk |-> dsk, res |-> "Some",
           index |-> index, wrote |-> FALSE, read |-> FALSE]
     ELSE IF b.free = -1
     THEN after_free(free_page(b, dsk, b.last, wres, v))
     ELSE load(b, dsk, FALSE)

unpin(b, page_num) ==
  IF page_num \notin DOMAIN b.page_table THEN b
  ELSE
  LET index == b.page_table[page_num]
      page == b.buffer_table[index]
  IN IF page.pin_count = 0 THEN b
     ELSE
     LET b1 == [b EXCEPT !.buffer_table[index].pin_count = @ - 1]
     IN IF b1.buffer_table[index].pin_count = 0 THEN link(b1, index) ELSE b1

\* what unpin hands back to its caller: the function has no return type, so
\* every path, the two early returns included, ends in the unit value
unpin_result(b, page_num) == "()"

mark_dirty(b, index) == [b EXCEPT !.buffer_table[index].dirty = TRUE]

\* flush_pages has an empty body: it leaves the pool and the file alone
flush_pages(b, dsk) == [bm |-> b, disk |-> dsk]

(***************************************************************************)
(* Buffer pool specification                                               *)
(***************************************************************************)
\* value of a layer's variable in the specifications of the other layers
Idle == [res |-> "idle"]

NoEv == [victim |-> -1, page |-> 0, wasDirty |-> FALSE, wrote |-> FALSE,
         wres |-> "Okay", res |-> "Some"]

NoGet == [page |-> 0, content |-> Null, fromDisk |-> FALSE]

\* expect: the page most recently stored into by a caller, and what it stored
NoExpect == [page |-> 0, v |-> Null]

\* trace.call: the last get_page call of the replacement specification and
\* what the pool was before it; trace.order: the resident pages with
\* pin_count 0, the one whose pin_count dropped to 0 first at the head
NoCall ==
  [op |-> "none", page |-> 0, res |-> "Some", index |-> -1,
   resident |-> FALSE, freeEmpty |-> FALSE, allPinned |-> FALSE,
   lruHead |-> 0, evicted |-> {}, cap |-> 0]

NoTrace == [call |-> NoCall, order |-> <<>>]

BpInit ==
  /\ bm = BufferManager_new
  /\ disk = [o \in Offsets |-> 0]
  /\ ev = NoEv
  /\ expect = NoExpect
  /\ lastGet = NoGet
  /\ trace = NoTrace
  /\ pf = Idle
  /\ rm = Idle
  /\ ix = Idle

BpRunning == bm.cap # 0

\* the caller of get_page: a page not resident is read from its file, with
\* the frame at the tail of the unused list evicted when no frame is free.
BpGetPage(p, wres, rres) ==
  LET evicting == /\ p \notin DOMAIN bm.page_table
                  /\ bm.free = -1
                  /\ bm.last # -1
                  /\ bm.buffer_table[bm.last].pin_count = 0
                  /\ bm.buffer_table[bm.last].page_num # 0
      victim == IF evicting THEN bm.buffer_table[bm.last] ELSE BufferPage_new
      returned(r) ==
        /\ bm' = IF r.res = "panic" THEN [r.bm EXCEPT !.cap = 0] ELSE r.bm
        /\ disk' = r.disk
        /\ ev' = IF evicting
                 THEN [victim |-> bm.last, page |-> victim.page_num,
                       wasDirty |-> victim.dirty, wrote |-> r.wrote,
                       wres |-> wres, res |-> r.res]
                 ELSE NoEv
        /\ \E c \in Bytes :
             /\ r.res = "Some" => c \in BufRead(r.bm.buffer_table[r.index].data)
             /\ lastGet' = IF r.res = "Some"
                           THEN [page |-> p, content |-> c, fromDisk |-> r.read]
                           ELSE NoGet
  IN /\ BpRunning
     /\ p \in DOMAIN bm.page_table =>
          bm.buffer_table[bm.page_table[p]].pin_count < MaxPin
     /\ \E v \in BufRead(victim.data) : returned(get_page(bm, disk, p, wres, rres, v))
     /\ trace' = NoTrace
     /\ UNCHANGED <<expect, pf, rm, ix>>

BpUnpin(p) ==
  /\ BpRunning
  /\ bm' = unpin(bm, p)
  /\ ev' = NoEv
  /\ lastGet' = NoGet
  /\ trace' = [NoTrace EXCEPT !.call.op = "unpin", !.call.page = p,
                              !.call.res = unpin_result(bm, p)]
  /\ UNCHANGED <<disk, expect, pf, rm, ix>>

\* a caller that holds a pin on p stores v in the page and marks it dirty
BpModify(p, v) ==
  /\ BpRunning
  /\ p \in DOMAIN bm.page_table
  /\ bm.buffer_table[bm.page_table[p]].pin_count > 0
  /\ bm' = mark_dirty([bm EXCEPT !.buffer_table[bm.page_table[p]].data = v],
                      bm.page_table[p])
  /\ expect' = [page |-> p, v |-> v]
  /\ ev' = NoEv
  /\ lastGet' = NoGet
  /\ trace' = NoTrace
  /\ UNCHANGED <<disk, pf, rm, ix>>

\* the caller of flush_pages; trace.call.op tells that the last call was
\* flush_pages
BpFlush ==
  /\ BpRunning
  /\ bm' = flush_pages(bm, disk).bm
  /\ disk' = flush_pages(bm, disk).disk
  /\ trace' = [NoTrace EXCEPT !.call.op = "flush_pages"]
  /\ ev' = NoEv
  /\ lastGet' = NoGet
  /\ UNCHANGED <<expect, pf, rm, ix>>

WriteOutcomes == {"Okay", "WriteAtError", "IncompleteWrite"}

ReadOutcomes == {"Okay", "ReadAtError", "IncompleteRead"}

BpNext ==
  \/ \E p \in BpPages, wres \in WriteOutcomes, rres \in ReadOutcomes :
       BpGetPage(p, wres, rres)
  \/ \E p \in BpPages : BpUnpin(p)
  \/ \E p \in BpPages, v \in Bytes : BpModify(p, v)
  \/ BpFlush

SpecBP == BpInit /\ [][BpNext]_vars

(***************************************************************************)
(* Buffer pool claims                                                      *)
(***************************************************************************)
RECURSIVE ChainFrom(_, _, _)
\* the frames reached from frame index i by following next, in order
ChainFrom(b, i, seen) ==
  IF i = -1 \/ i \in seen \/ i \notin DOMAIN b.buffer_table THEN {}
  ELSE {i} \cup ChainFrom(b, b.buffer_table[i].next, seen \cup {i})

LruSet(b) == ChainFrom(b, b.first, {})

FreeSet(b) == ChainFrom(b, b.free, {})

Resident(b) == {b.page_table[p] : p \in DOMAIN b.page_table}

\* C2: when get_page evicts an unpinned frame, write_at is called iff the
\* frame is dirty; a dirty frame is cleared and reused only after the write
\* returned Okay, and after a failed write the frame still holds its page,
\* still dirty, and get_page returns None.
C2_EvictWritesIffDirty ==
  ev.victim # -1 =>
    /\ ev.wrote = ev.wasDirty
    /\ (ev.wasDirty /\ ev.wres # "Okay") =>
         /\ ev.res = "None"
         /\ ev.page \in DOMAIN bm.page_table
         /\ bm.page_table[ev.page] = ev.victim
         /\ bm.buffer_table[ev.victim].page_num = ev.page
         /\ bm.buffer_table[ev.victim].dirty
    /\ (ev.page \notin DOMAIN bm.page_table /\ ev.wasDirty) =>
         (ev.wrote /\ ev.wres = "Okay")
    /\ (~ev.wasDirty \/ ev.wres = "Okay") => ev.page \notin DOMAIN bm.page_table

C2_Witness_DirtyEvicted ==
  /\ ev.victim # -1 /\ ev.wasDirty /\ ev.wres = "Okay" /\ ev.res = "Some"
  /\ bm.buffer_table[ev.victim].page_num # ev.page

\* C3: a page that was modified and marked dirty, unpinned, evicted and read
\* back by get_page has the contents that were stored in it.
C3_EvictReloadSameBytes ==
  (lastGet.fromDisk /\ lastGet.page = expect.page) =>
     lastGet.content = expect.v

\* C4: every resident frame has pin_count = 0 iff it is on the unused (LRU)
\* list, the frames reached from first by next.
C4_UnpinnedIffOnLru ==
  \A i \in Resident(bm) :
     (bm.buffer_table[i].pin_count = 0) <=> (i \in LruSet(bm))

\* C28: in every reachable state of the pool no frame is both on the LRU list
\* (reached from `first`) and on the free-frame list (reached from `free`).
C28_LruAndFreeListsDisjoint == LruSet(bm) \cap FreeSet(bm) = {}

\* get_page took a frame off the LRU list and freed it, the read of the new
\* page failed, and the frame is left on the free list
C28_Witness_VictimOnFreeListOnly ==
  /\ ev.victim # -1
  /\ ev.victim \in FreeSet(bm)
  /\ ev.victim \notin LruSet(bm)

\* C27: an unpin of a page that is not resident fails with NotResident and an
\* unpin of a resident page whose pin_count is 0 fails with AlreadyUnpinned,
\* both reported to the caller and both leaving the pool as it was; any other
\* unpin takes one from pin_count and, when that makes it 0, puts the frame at
\* the head (`first`) of the LRU list.
C27_UnpinStep ==
  trace'.call.op = "unpin" =>
     LET p == trace'.call.page
     IN IF p \notin DOMAIN bm.page_table
        THEN trace'.call.res = "NotResident" /\ bm' = bm
        ELSE LET index == bm.page_table[p]
                 pin == bm.buffer_table[index].pin_count
             IN IF pin = 0
                THEN trace'.call.res = "AlreadyUnpinned" /\ bm' = bm
                ELSE /\ bm'.buffer_table[index].pin_count = pin - 1
                     /\ (pin = 1 => bm'.first = index)

C27_UnpinReportsFailures == [][C27_UnpinStep]_vars

\* what unpin does to the pool, whatever the caller is told
UnpinStateStep ==
  trace'.call.op = "unpin" =>
     LET p == trace'.call.page
     IN IF p \notin DOMAIN bm.page_table
        THEN bm' = bm
        ELSE LET index == bm.page_table[p]
                 pin == bm.buffer_table[index].pin_count
             IN IF pin = 0
                THEN bm' = bm
                ELSE /\ bm'.buffer_table[index].pin_count = pin - 1
                     /\ (pin = 1 => bm'.first = index)

UnpinChangesPoolAsDocumented == [][UnpinStateStep]_vars

\* C26: flush_pages writes back every dirty resident frame of the file whose
\* pin_count is 0: after the call no resident frame with pin_count 0 is
\* dirty.
C26_FlushLeavesNoUnpinnedDirty ==
  trace.call.op = "flush_pages" =>
     \A i \in Resident(bm) :
        bm.buffer_table[i].pin_count = 0 => ~bm.buffer_table[i].dirty

(***************************************************************************)
(* PageFileHandle.  page_file.rs calls a BufferManager whose get_page,     *)
(* allocate_page, unpin and mark_dirty return Result; that revision of the *)
(* buffer manager is not among the sources, so the four calls follow the   *)
(* buffer pool operations table of the specification.  h is the state a    *)
(* PageFileHandle works on: its PageFileHeader (free, num_pages), the      *)
(* PageHeader of every page of the file, and the pin count of every page.  *)
(***************************************************************************)
\* pages one file may grow to in the page file specification
PfMaxPages == 3

PageFileHandle_new ==
  [free |-> 0, num_pages |-> 0, header_changed |-> FALSE,
   pages |-> <<>>, pins |-> <<>>]

\* ok: whether the pool could produce the frame (a frame was free or could
\* be evicted, and the read succeeded); a page that was never written to
\* the file reads short.
bm_get_page(h, page_num, ok) ==
  IF ok /\ page_num \in DOMAIN h.pages
  THEN [h |-> [h EXCEPT !.pins[page_num] = @ + 1], res |-> "Ok"]
  ELSE [h |-> h, res |-> "Err"]

bm_allocate_page(h, page_num, ok) ==
  IF ok
  THEN [h |-> [h EXCEPT !.pages = PutKey(h.pages, page_num,
                                         [page_num |-> 0, next_free |-> 0]),
                        !.pins = PutKey(h.pins, page_num, 1)],
        res |-> "Ok"]
  ELSE [h |-> h, res |-> "Err"]

bm_unpin(h, page_num) ==
  IF page_num \notin DOMAIN h.pins THEN [h |-> h, res |-> "NotResident"]
  ELSE IF h.pins[page_num] = 0 THEN [h |-> h, res |-> "AlreadyUnpinned"]
  ELSE [h |-> [h EXCEPT !.pins[page_num] = @ - 1], res |-> "Ok"]

bm_mark_dirty(h, page_num) ==
  IF page_num \notin DOMAIN h.pins THEN [h |-> h, res |-> "NotResident"]
  ELSE IF h.pins[page_num] = 0 THEN [h |-> h, res |-> "NotPinned"]
  ELSE [h |-> h, res |-> "Ok"]

pfh_mark_dirty(h, page_num) ==
  IF bm_mark_dirty(h, page_num).res # "Ok"
  THEN [h |-> h, res |-> "MarkDirtyError"]
  ELSE [h |-> h, res |-> "Ok"]

pfh_unpin_page(h, page_num) ==
  LET done(u) == IF u.res # "Ok" THEN [h |-> h, res |-> "UnpinPageError"]
                 ELSE [h |-> u.h, res |-> "Ok"]
  IN done(bm_unpin(h, page_num))

pfh_unpin_dirty_page(h, page_num) ==
  IF pfh_mark_dirty(h, page_num).res # "Ok"
  THEN [h |-> h, res |-> "MarkDirtyError"]
  ELSE pfh_unpin_page(h, page_num)

pfh_get_page(h, page_num, ok) ==
  LET done(g) == IF g.res # "Ok" THEN [h |-> h, res |-> "GetPageError"]
                 ELSE [h |-> g.h, res |-> "Ok"]
  IN done(bm_get_page(h, page_num, ok))

\* page: the page number of the PageHandle returned (0 when Err); reused:
\* whether the page came off the free list.
pfh_allocate_page(h, ok) ==
  LET first_free == h.free
      init(h1, page_num, reused) ==
        [h |-> [h1 EXCEPT !.pages[page_num] =
                             [page_num |-> page_num, next_free |-> 0],
                          !.header_changed = TRUE],
         res |-> pfh_mark_dirty(h1, page_num).res,
         page |-> page_num, reused |-> reused]
      after_get(g) ==
        IF g.res # "Ok"
        THEN [h |-> h, res |-> "GetPageError", page |-> 0, reused |-> FALSE]
        ELSE init([g.h EXCEPT !.header_changed = TRUE,
                              !.free = g.h.pages[first_free].next_free],
                  first_free, TRUE)
      after_allocate(a, page_num) ==
        IF a.res # "Ok"
        THEN [h |-> [h EXCEPT !.num_pages = @ + 1],
              res |-> "AllocatePageError", page |-> 0, reused |-> FALSE]
        ELSE init(a.h, page_num, FALSE)
  IN IF first_free > 0
     THEN after_get(bm_get_page(h, first_free, ok))
     ELSE after_allocate(
            bm_allocate_page([h EXCEPT !.num_pages = @ + 1],
                             PageNum(h.num_pages), ok),
            PageNum(h.num_pages))

\* dispose_page linking the page behind the head of the free list
pfh_dispose_page_behind_head(h, page_num, ok) ==
  LET after_get(g) ==
        IF g.res # "Ok" THEN [h |-> h, res |-> "GetPageError"]
        ELSE IF g.h.pages[page_num].next_free # 0
        THEN [h |-> g.h, res |-> "PageDisposed"]
        ELSE IF h.free = 0 \/ h.free = page_num
        THEN [h |-> bm_unpin([g.h EXCEPT
                                 !.pages[page_num].next_free = h.free,
                                 !.free = page_num,
                                 !.header_changed = TRUE],
                             page_num).h,
              res |-> "Ok"]
        ELSE [h |-> bm_unpin([g.h EXCEPT
                                 !.pages[page_num].next_free =
                                    h.pages[h.free].next_free,
                                 !.pages[h.free].next_free = page_num,
                                 !.header_changed = TRUE],
                             page_num).h,
              res |-> "Ok"]
  IN after_get(bm_get_page(h, page_num, ok))

pfh_dispose_page(h, page_num, ok) ==
  LET after_get(g) ==
        IF g.res # "Ok" THEN [h |-> h, res |-> "GetPageError"]
        ELSE IF g.h.pages[page_num].next_free # 0
        THEN [h |-> g.h, res |-> "PageDisposed"]
        ELSE [h |-> bm_unpin([g.h EXCEPT
                                 !.pages[page_num].next_free = h.free,
                                 !.free = page_num,
                                 !.header_changed = TRUE],
                             page_num).h,
              res |-> "Ok"]
  IN after_get(bm_get_page(h, page_num, ok))

(***************************************************************************)
(* Page file specification: a client allocates, disposes and unpins pages  *)
(* of one file.  pf.disposed is the set of pages disposed and not since    *)
(* handed out again by allocate_page, pf.stack the same pages in the order *)
(* of their last disposal.  Of the last call pf.ok tells whether the pool  *)
(* could produce the frame, pf.top is the page disposed last before an     *)
(* allocate_page, pf.was whether dispose_page was given a disposed page,   *)
(* pf.np the header's num_pages before the call.  pf.clean holds until a   *)
(* dispose_page of a disposed page succeeds.                               *)
(***************************************************************************)
PfInit ==
  /\ pf = [h |-> PageFileHandle_new, disposed |-> {}, res |-> "Ok",
           op |-> "new", page |-> 0, ok |-> TRUE, stack |-> <<>>,
           top |-> 0, was |-> FALSE, clean |-> TRUE, np |-> 0]
  /\ bm = BufferManager_new
  /\ disk = [o \in Offsets |-> 0]
  /\ ev = NoEv
  /\ expect = NoExpect
  /\ lastGet = NoGet
  /\ trace = NoTrace
  /\ rm = Idle
  /\ ix = Idle

PfAllocate(ok) ==
  LET done(r) ==
        pf' = [h |-> r.h,
               disposed |-> IF r.res = "Ok" THEN pf.disposed \ {r.page}
                            ELSE pf.disposed,
               res |-> r.res, op |-> "allocate_page", page |-> r.page,
               ok |-> ok,
               stack |-> IF r.res = "Ok"
                         THEN SelectSeq(pf.stack, LAMBDA q : q # r.page)
                         ELSE pf.stack,
               top |-> IF pf.stack = <<>> THEN 0
                       ELSE pf.stack[Len(pf.stack)],
               was |-> FALSE, clean |-> pf.clean, np |-> pf.h.num_pages]
  IN /\ pf.h.free = 0 => pf.h.num_pages < PfMaxPages
     /\ pf.h.free # 0 => pf.h.pins[pf.h.free] < MaxPin
     /\ done(pfh_allocate_page(pf.h, ok))
     /\ UNCHANGED <<bpVars, rm, ix>>

PfDispose(page_num, ok) ==
  LET done(r) ==
        pf' = [h |-> r.h,
               disposed |-> IF r.res = "Ok" THEN pf.disposed \cup {page_num}
                            ELSE pf.disposed,
               res |-> r.res, op |-> "dispose_page", page |-> page_num,
               ok |-> ok,
               stack |-> IF r.res = "Ok"
                         THEN Append(SelectSeq(pf.stack,
                                               LAMBDA q : q # page_num),
                                     page_num)
                         ELSE pf.stack,
               top |-> 0,
               was |-> page_num \in pf.disposed,
               clean |-> pf.clean
                           /\ ~(r.res = "Ok" /\ page_num \in pf.disposed),
               np |-> pf.h.num_pages]
  IN /\ page_num \in DOMAIN pf.h.pages
     /\ pf.h.pins[page_num] < MaxPin
     /\ done(pfh_dispose_page(pf.h, page_num, ok))
     /\ UNCHANGED <<bpVars, rm, ix>>

PfUnpin(page_num) ==
  LET done(r) ==
        pf' = [pf EXCEPT !.h = r.h, !.res = r.res, !.op = "unpin_page",
                         !.page = page_num, !.ok = TRUE, !.top = 0,
                         !.was = FALSE, !.np = pf.h.num_pages]
  IN /\ page_num \in DOMAIN pf.h.pages
     /\ done(pfh_unpin_page(pf.h, page_num))
     /\ UNCHANGED <<bpVars, rm, ix>>

PfPages == {PageNum(s) : s \in 0..(PfMaxPages - 1)}

PfNext ==
  \/ \E ok \in BOOLEAN : PfAllocate(ok)
  \/ \E page_num \in PfPages, ok \in BOOLEAN : PfDispose(page_num, ok)
  \/ \E page_num \in PfPages : PfUnpin(page_num)

SpecPF == PfInit /\ [][PfNext]_vars

(***************************************************************************)
(* Page file claims                                                        *)
(***************************************************************************)
RECURSIVE FreeChain(_, _, _)
\* the pages met from page_num by following next_free, up to fuel pages;
\* the walk stops at 0 and at a page that is not in the file
FreeChain(h, page_num, fuel) ==
  IF page_num = 0 \/ fuel = 0 \/ page_num \notin DOMAIN h.pages THEN <<>>
  ELSE <<page_num>> \o FreeChain(h, h.pages[page_num].next_free, fuel - 1)

SeqSet(q) == {q[i] : i \in 1..Len(q)}

\* C40: dispose_page leaves the pin count of the page what it was before the
\* call, when it succeeds and when it fails with the double-dispose error
\* PageDisposed.
C40_DisposeStep ==
  (pf'.op = "dispose_page" /\ pf'.res \in {"Ok", "PageDisposed"})
     => pf'.h.pins[pf'.page] = pf.h.pins[pf'.page]

C40_DisposeKeepsPinCount == [][C40_DisposeStep]_vars

\* C29: when allocate_page returns an error, because the pool could not
\* supply or read the frame, the handle's num_pages and first free page are
\* what they were before the call.
C29_FailedAllocateStep ==
  (pf'.op = "allocate_page" /\ pf'.res \in {"GetPageError", "AllocatePageError"})
     => /\ pf'.h.num_pages = pf.h.num_pages
        /\ pf'.h.free = pf.h.free

C29_FailedAllocateKeepsHeader == [][C29_FailedAllocateStep]_vars

\* C5: the pages reached from the header's free page by next_free are
\* exactly the pages disposed and not since re-allocated, each once, and
\* the chain ends at 0.
C5_FreeListIsDisposedSet ==
  LET chain == FreeChain(pf.h, pf.h.free, PfMaxPages + 1)
  IN /\ Len(chain) <= PfMaxPages
     /\ Cardinality(SeqSet(chain)) = Len(chain)
     /\ SeqSet(chain) = pf.disposed

\* C17: while only allocated pages were disposed, an allocate_page the pool
\* can serve returns the page disposed last among the pages disposed and
\* not yet re-allocated, and leaves num_pages as it was: N pages disposed
\* come back from N calls of allocate_page in reverse order of disposal.
C17_AllocateReturnsLastDisposed ==
  (pf.op = "allocate_page" /\ pf.clean /\ pf.ok /\ pf.top # 0) =>
     /\ pf.res = "Ok"
     /\ pf.page = pf.top
     /\ pf.h.num_pages = pf.np

C17_Witness_SecondOfTwoComesFirst ==
  /\ pf.op = "allocate_page" /\ pf.clean /\ pf.ok
  /\ pf.res = "Ok"
  /\ pf.top = PageNum(1)
  /\ pf.page = PageNum(1)
  /\ pf.stack = <<PageNum(0)>>
  /\ pf.h.num_pages = 2

\* C18: dispose_page of a page that is on the free list (disposed and not
\* re-allocated) returns PageDisposed and leaves the header's free page and
\* the next_free of every page as they were, wherever on the free list the
\* page is.
C18_DoubleDisposeRejected ==
  [][(/\ pf'.op = "dispose_page"
      /\ pf'.was
      /\ pf'.ok)
       => /\ pf'.res = "PageDisposed"
          /\ pf'.h.free = pf.h.free
          /\ \A p \in DOMAIN pf.h.pages :
               pf'.h.pages[p].next_free = pf.h.pages[p].next_free]_vars

(***************************************************************************)
(* RecordFileHandle.  st is the state a RecordFileHandle works on: its     *)
(* free page (free), the state of its PageFileHandle (h), and for every    *)
(* data page the bytes behind the RecordPageHeader's num_records field     *)
(* (pg): next_free, the bitmap as a sequence of bytes and the record       *)
(* bytes by offset.  A RecordPageHeader is read at the address of the      *)
(* page's PageHeader: num_records (usize, offset 0) lies over the          *)
(* PageHeader's page_num (low word) and next_free (high word).             *)
(***************************************************************************)
\* records per page of the record file specification
RmSlots == 2
\* data pages a record file may grow to
RmMaxPages == 2
\* record contents are abstracted to one value in 1..RmMaxData
RmMaxData == 2
\* of the page fetches of one call, at most the first RmMaxFetch succeed
\* before one fails
RmMaxFetch == 2

PAGE_SIZE == 4096

\* size_of::<RecordPageHeader>()
RecordPageHeaderSize == 16

\* the record size for which a page holds RmSlots records
record_size == PAGE_SIZE \div RmSlots - 1

calc_num_records_per_page(size) == (8 * PAGE_SIZE) \div (8 * size + 1)

calc_bitmap_size(size) ==
  IF (size \div 8) * 8 < size THEN size \div 8 + 1 ELSE size \div 8

RecordFileHeader ==
  [record_size |-> record_size,
   bitmap_offset |-> RecordPageHeaderSize,
   bitmap_size |-> calc_bitmap_size(calc_num_records_per_page(record_size)),
   records_offset |-> RecordPageHeaderSize
                      + calc_bitmap_size(calc_num_records_per_page(record_size)),
   num_records_per_page |-> calc_num_records_per_page(record_size),
   num_pages |-> 0]

\* get_record_offset without the slot's share of the offset
get_record_offset_of_slot_0(slot) == RecordFileHeader.records_offset

get_record_offset(slot) ==
  RecordFileHeader.records_offset + slot * RecordFileHeader.record_size

RECURSIVE Pow2(_)
Pow2(k) == IF k = 0 THEN 1 ELSE 2 * Pow2(k - 1)

\* num & mask for a mask with one bit set
BitAnd(num, mask) == IF (num \div mask) % 2 = 1 THEN mask ELSE 0

\* set_bitmap without the BitSet and BitUnset errors
set_bitmap_unchecked(bitmap, slot, set) ==
  LET moder == slot \div 8
      mask == Pow2(7 - (slot - moder * 8))
      bit == BitAnd(bitmap[moder + 1], mask)
  IN [bitmap |-> [bitmap EXCEPT ![moder + 1] =
                                   IF set THEN @ - bit + mask ELSE @ - bit],
      res |-> "Ok"]

\* bitmap: the bitmap bytes, byte i at index i + 1
set_bitmap(bitmap, slot, set) ==
  LET moder == slot \div 8
      remainder == slot - moder * 8
      num == bitmap[moder + 1]
      mask == Pow2(7 - remainder)
      bit == BitAnd(num, mask)
  IN IF set /\ bit = 1 THEN [bitmap |-> bitmap, res |-> "BitSet"]
     ELSE IF ~set /\ bit = 0 THEN [bitmap |-> bitmap, res |-> "BitUnset"]
     ELSE IF set
     THEN [bitmap |-> [bitmap EXCEPT ![moder + 1] = num - bit + mask],
           res |-> "Ok"]
     ELSE [bitmap |-> [bitmap EXCEPT ![moder + 1] = num - bit], res |-> "Ok"]

RECURSIVE find_free_slot_from(_, _)
\* the for loop of find_free_slot from slot i on
find_free_slot_from(bitmap, i) ==
  IF i >= RecordFileHeader.num_records_per_page
  THEN [bitmap |-> bitmap, res |-> "FullPage", slot |-> 0]
  ELSE IF BitAnd(bitmap[i \div 8 + 1], Pow2(7 - (i - (i \div 8) * 8))) = 0
  THEN [bitmap |-> [bitmap EXCEPT ![i \div 8 + 1] =
                                     @ + Pow2(7 - (i - (i \div 8) * 8))],
        res |-> "Ok", slot |-> i]
  ELSE find_free_slot_from(bitmap, i + 1)

\* find_free_slot with a scan that starts behind slot 0
find_free_slot_behind_0(bitmap) == find_free_slot_from(bitmap, 1)

find_free_slot(bitmap) == find_free_slot_from(bitmap, 0)

\* rph.num_records of page page_num
num_records(h, page_num) ==
  IF h.pages[page_num].next_free = 0 THEN h.pages[page_num].page_num
  ELSE RecordFileHeader.num_records_per_page + 1

\* rph.num_records = n, for n below 2^32
set_num_records(h, page_num, n) ==
  [h EXCEPT !.pages[page_num] = [page_num |-> n, next_free |-> 0]]

\* the payload of a page after allocate_page has zeroed it
ZeroPage ==
  [next_free |-> 0,
   bitmap |-> [i \in 1..RecordFileHeader.bitmap_size |-> 0],
   data |-> [o \in {get_record_offset(sl) :
                      sl \in 0..(RecordFileHeader.num_records_per_page - 1)} |-> 0]]

RecordFileHandle_new(h) == [free |-> 0, h |-> h, pg |-> <<>>]

\* f: the number of page fetches that succeed before one fails
get_record(st, rid, f) ==
  LET after_get(g) ==
        IF g.res # "Ok" THEN [st |-> st, res |-> g.res, data |-> 0]
        ELSE [st |-> [st EXCEPT !.h = pfh_unpin_page(g.h, rid[1]).h],
              res |-> pfh_unpin_page(g.h, rid[1]).res,
              data |-> st.pg[rid[1]].data[get_record_offset(rid[2])]]
  IN after_get(pfh_get_page(st.h, rid[1], f > 0))

update_record(st, rid, data, f) ==
  LET after_get(g) ==
        IF g.res # "Ok" THEN [st |-> st, res |-> g.res]
        ELSE [st |-> [st EXCEPT
                        !.h = pfh_unpin_dirty_page(g.h, rid[1]).h,
                        !.pg[rid[1]].data[get_record_offset(rid[2])] = data],
              res |-> pfh_unpin_dirty_page(g.h, rid[1]).res]
  IN after_get(pfh_get_page(st.h, rid[1], f > 0))

\* delete_record going on after set_bitmap has failed
delete_record_unguarded(st, rid, f) ==
  LET page_num == rid[1]
      unlinked(st1, h1, sb) ==
        IF FALSE
        THEN [st |-> [st1 EXCEPT !.h = pfh_unpin_dirty_page(h1, page_num).h],
              res |-> "SetBitmapError"]
        ELSE IF num_records(h1, page_num) = 0
        THEN [st |-> st1, res |-> "overflow"]
        ELSE [st |-> [st1 EXCEPT
                        !.h = pfh_unpin_dirty_page(
                                set_num_records(h1, page_num,
                                                num_records(h1, page_num) - 1),
                                page_num).h,
                        !.pg[page_num].bitmap = sb.bitmap,
                        !.pg[page_num].next_free = st.free,
                        !.free = page_num],
              res |-> "Ok"]
      after_get(g) ==
        IF g.res # "Ok" THEN [st |-> st, res |-> g.res]
        ELSE unlinked([st EXCEPT
                         !.pg[page_num].data[get_record_offset(rid[2])] = 0],
                      g.h,
                      set_bitmap(st.pg[page_num].bitmap, rid[2], FALSE))
  IN after_get(pfh_get_page(st.h, page_num, f > 0))

delete_record(st, rid, f) ==
  LET page_num == rid[1]
      unlinked(st1, h1, sb) ==
        IF sb.res # "Ok"
        THEN [st |-> [st1 EXCEPT !.h = pfh_unpin_dirty_page(h1, page_num).h],
              res |-> "SetBitmapError"]
        ELSE IF num_records(h1, page_num) = 0
        THEN [st |-> st1, res |-> "overflow"]
        ELSE [st |-> [st1 EXCEPT
                        !.h = pfh_unpin_dirty_page(
                                set_num_records(h1, page_num,
                                                num_records(h1, page_num) - 1),
                                page_num).h,
                        !.pg[page_num].bitmap = sb.bitmap,
                        !.pg[page_num].next_free = st.free,
                        !.free = page_num],
              res |-> "Ok"]
      after_get(g) ==
        IF g.res # "Ok" THEN [st |-> st, res |-> g.res]
        ELSE unlinked([st EXCEPT
                         !.pg[page_num].data[get_record_offset(rid[2])] = 0],
                      g.h,
                      set_bitmap(st.pg[page_num].bitmap, rid[2], FALSE))
  IN after_get(pfh_get_page(st.h, page_num, f > 0))

RECURSIVE insert_walk(_, _, _)
\* the while loop of insert_record leaving the next_free of a full page
insert_walk_keeping_links(st, f, fuel) ==
  LET slot_found(g, fs) ==
        IF fs.res # "Ok"
        THEN [st |-> [st EXCEPT !.h = pfh_unpin_dirty_page(g.h, st.free).h],
              res |-> "FindFreeSlotError", page |-> 0, slot |-> 0, f |-> f]
        ELSE [st |-> [st EXCEPT !.h = g.h, !.pg[st.free].bitmap = fs.bitmap],
              res |-> "found", page |-> st.free, slot |-> fs.slot, f |-> f]
      after_get(g) ==
        IF g.res # "Ok"
        THEN [st |-> st, res |-> g.res, page |-> 0, slot |-> 0, f |-> f]
        ELSE IF num_records(g.h, st.free) > RecordFileHeader.num_records_per_page
        THEN [st |-> st, res |-> "panic", page |-> 0, slot |-> 0, f |-> f]
        ELSE IF num_records(g.h, st.free) = RecordFileHeader.num_records_per_page
        THEN insert_walk([st EXCEPT
                            !.free = st.pg[st.free].next_free,
                            !.h = pfh_unpin_dirty_page(g.h, st.free).h],
                         f - 1, fuel - 1)
        ELSE slot_found(g, find_free_slot(st.pg[st.free].bitmap))
  IN IF st.free = 0
     THEN [st |-> st, res |-> "alloc", page |-> 0, slot |-> 0, f |-> f]
     ELSE IF fuel = 0
     THEN [st |-> st, res |-> "diverge", page |-> 0, slot |-> 0, f |-> f]
     ELSE after_get(pfh_get_page(st.h, st.free, f > 0))

\* the while loop of insert_record.  res: "found" (page and slot chosen,
\* the page pinned), "alloc" (self.free is 0), an error, or "diverge" when
\* the loop has not ended after fuel iterations
insert_walk(st, f, fuel) ==
  LET slot_found(g, fs) ==
        IF fs.res # "Ok"
        THEN [st |-> [st EXCEPT !.h = pfh_unpin_dirty_page(g.h, st.free).h],
              res |-> "FindFreeSlotError", page |-> 0, slot |-> 0, f |-> f]
        ELSE [st |-> [st EXCEPT !.h = g.h, !.pg[st.free].bitmap = fs.bitmap],
              res |-> "found", page |-> st.free, slot |-> fs.slot, f |-> f]
      after_get(g) ==
        IF g.res # "Ok"
        THEN [st |-> st, res |-> g.res, page |-> 0, slot |-> 0, f |-> f]
        ELSE IF num_records(g.h, st.free) > RecordFileHeader.num_records_per_page
        THEN [st |-> st, res |-> "panic", page |-> 0, slot |-> 0, f |-> f]
        ELSE IF num_records(g.h, st.free) = RecordFileHeader.num_records_per_page
        THEN insert_walk([st EXCEPT
                            !.free = st.pg[st.free].next_free,
                            !.pg[st.free].next_free = 0,
                            !.h = pfh_unpin_dirty_page(g.h, st.free).h],
                         f - 1, fuel - 1)
        ELSE slot_found(g, find_free_slot(st.pg[st.free].bitmap))
  IN IF st.free = 0
     THEN [st |-> st, res |-> "alloc", page |-> 0, slot |-> 0, f |-> f]
     ELSE IF fuel = 0
     THEN [st |-> st, res |-> "diverge", page |-> 0, slot |-> 0, f |-> f]
     ELSE after_get(pfh_get_page(st.h, st.free, f > 0))

\* rid: the RID returned when res is "Ok"
insert_record(st, data, f) ==
  LET store(st1, page_num, slot_num, new_page) ==
        [st |-> [st1 EXCEPT
                   !.pg[page_num].data[get_record_offset(slot_num)] = data,
                   !.h = pfh_unpin_dirty_page(
                           set_num_records(st1.h, page_num,
                              IF new_page THEN 1
                              ELSE num_records(st1.h, page_num) + 1),
                           page_num).h],
         res |-> pfh_unpin_dirty_page(st1.h, page_num).res,
         rid |-> <<page_num, slot_num>>]
      new_slot(st1, page_num, fs) ==
        IF fs.res # "Ok"
        THEN [st |-> [st1 EXCEPT !.h = pfh_unpin_dirty_page(st1.h, page_num).h],
              res |-> "FindFreeSlotError", rid |-> <<0, 0>>]
        ELSE store([st1 EXCEPT !.pg[page_num].bitmap = fs.bitmap],
                   page_num, fs.slot, TRUE)
      after_allocate(st1, a) ==
        IF a.res # "Ok"
        THEN [st |-> [st1 EXCEPT !.h = a.h], res |-> a.res, rid |-> <<0, 0>>]
        ELSE new_slot([st1 EXCEPT !.h = a.h,
                                  !.pg = PutKey(st1.pg, a.page, ZeroPage),
                                  !.free = a.page],
                      a.page, find_free_slot(ZeroPage.bitmap))
      after_walk(w) ==
        IF w.res = "found" THEN store(w.st, w.page, w.slot, FALSE)
        ELSE IF w.res = "alloc"
        THEN after_allocate(w.st, pfh_allocate_page(w.st.h, w.f > 0))
        ELSE [st |-> w.st, res |-> w.res, rid |-> <<0, 0>>]
  IN after_walk(insert_walk(st, f, RmMaxPages + 2))

(***************************************************************************)
(* Record file specification: a client inserts, reads, updates and deletes *)
(* records of one file.  rm.live maps every RID returned by insert_record  *)
(* and not yet passed to delete_record to the bytes last written to it.    *)
(* The client reads and deletes at any slot of a data page and updates     *)
(* the records it holds.                                                   *)
(***************************************************************************)
RmData == 1..RmMaxData

RmFetches == 0..RmMaxFetch

\* the page file of a record file just created: RecordFileManager::create_file
\* has allocated the page of the RecordFileHeader and unpinned it
RmFile ==
  pfh_unpin_dirty_page(pfh_allocate_page(PageFileHandle_new, TRUE).h,
                       PageNum(0)).h

NoRid == <<0, 0>>

\* the bit of slot in bitmap is set
BitOf(bitmap, slot) ==
  BitAnd(bitmap[slot \div 8 + 1], Pow2(7 - (slot - (slot \div 8) * 8))) # 0

\* what the specification remembers of the last calls.  ins: the RID
\* returned by the insert_record just made and low, the lowest slot of its
\* page whose bit was unset before the call; freed: the slots of one page
\* deleted by the last calls, all of them delete_record calls that
\* succeeded; reuse: the inserts made since the slots 0..k-1 of page were
\* freed that way, i of them, all of them successful; upd: the bit of the
\* slot of the update_record just made was "set" or "unset" before the
\* call ("failed" when the page fetch of the call failed), and same: the call left the bytes of the slot alone
NoIns == [page |-> 0, slot |-> 0, low |-> 0]

NoFreed == [page |-> 0, slots |-> {}]

NoReuse == [page |-> 0, k |-> 0, i |-> 0]

NoNote ==
  [ins |-> NoIns, freed |-> NoFreed, reuse |-> NoReuse, upd |-> "none",
   same |-> TRUE, walk |-> 0, loop |-> FALSE]

\* a fetch budget that no call uses up: no page fetch of the call fails
RmNoFail == RmMaxPages + 3

\* of an insert_record made with no fetch failing: walk, the number of full
\* pages its loop passed, and loop, whether the page at the head of the
\* free chain had itself as next_free before the call
WalkNote(st, f, note) ==
  IF f # RmNoFail THEN note
  ELSE [note EXCEPT
          !.walk = f - insert_walk(st, f, RmMaxPages + 2).f,
          !.loop = /\ st.free \in DOMAIN st.pg
                   /\ st.pg[st.free].next_free = st.free]

\* the lowest slot of the page whose bit is unset in st, 0 on a page that
\* insert_record has yet to allocate
LowestUnset(st, page) ==
  IF page \notin DOMAIN st.pg THEN 0
  ELSE LET unset == {sl \in 0..(RecordFileHeader.num_records_per_page - 1) :
                       ~BitOf(st.pg[page].bitmap, sl)}
       IN IF unset = {} THEN RecordFileHeader.num_records_per_page
          ELSE CHOOSE sl \in unset : \A o \in unset : sl <= o

RmInit ==
  /\ rm = [st |-> RecordFileHandle_new(RmFile), live |-> <<>>,
           res |-> "Ok", wasLive |-> FALSE, gotLive |-> FALSE, got |-> 0,
           del |-> "none", kept |-> TRUE, note |-> NoNote]
  /\ bm = BufferManager_new
  /\ disk = [o \in Offsets |-> 0]
  /\ ev = NoEv
  /\ expect = NoExpect
  /\ lastGet = NoGet
  /\ trace = NoTrace
  /\ pf = Idle
  /\ ix = Idle

RmRids ==
  {<<p, sl>> : p \in DOMAIN rm.st.pg,
               sl \in 0..(RecordFileHeader.num_records_per_page - 1)}

\* reuse after one more insert_record that succeeded
ReuseAfter(note) ==
  IF note.freed.slots # {}
     /\ note.freed.slots = 0..(Cardinality(note.freed.slots) - 1)
  THEN [page |-> note.freed.page, k |-> Cardinality(note.freed.slots),
        i |-> 1]
  ELSE IF note.reuse.i >= 1 /\ note.reuse.i < note.reuse.k
  THEN [note.reuse EXCEPT !.i = @ + 1]
  ELSE NoReuse

\* wasLive: the RID returned was live before the call
RmInsert(data, f) ==
  LET done(r) ==
        /\ r.st.h.num_pages <= RmMaxPages + 1
        /\ rm' = [st |-> r.st,
                  live |-> IF r.res = "Ok" THEN PutKey(rm.live, r.rid, data)
                           ELSE rm.live,
                  res |-> r.res,
                  wasLive |-> r.res = "Ok" /\ r.rid \in DOMAIN rm.live,
                  gotLive |-> FALSE, got |-> 0,
                  del |-> "none", kept |-> TRUE,
                  note |-> WalkNote(rm.st, f,
                             IF r.res # "Ok" THEN NoNote
                             ELSE [NoNote EXCEPT
                                     !.ins = [page |-> r.rid[1],
                                              slot |-> r.rid[2],
                                              low |-> LowestUnset(rm.st,
                                                                  r.rid[1])],
                                     !.reuse = ReuseAfter(rm.note)])]
  IN /\ done(insert_record(rm.st, data, f))
     /\ UNCHANGED <<bpVars, pf, ix>>

\* gotLive: the call read a live RID and returned Ok; got: the bytes
\* returned less the bytes last written to the RID
RmGet(rid, f) ==
  LET done(r) ==
        rm' = [rm EXCEPT !.st = r.st, !.res = r.res,
                         !.wasLive = FALSE, !.del = "none", !.kept = TRUE,
                         !.note = NoNote,
                         !.gotLive = r.res = "Ok" /\ rid \in DOMAIN rm.live,
                         !.got = IF r.res = "Ok" /\ rid \in DOMAIN rm.live
                                 THEN r.data - rm.live[rid] ELSE 0]
  IN /\ rid \in RmRids
     /\ done(get_record(rm.st, rid, f))
     /\ UNCHANGED <<bpVars, pf, ix>>

RmUpdate(rid, data, f) ==
  LET done(r) ==
        rm' = [rm EXCEPT !.st = r.st, !.res = r.res,
                         !.wasLive = FALSE, !.gotLive = FALSE, !.got = 0,
                         !.del = "none", !.kept = TRUE,
                         !.note = [NoNote EXCEPT
                                     !.upd = IF BitOf(rm.st.pg[rid[1]].bitmap,
                                                      rid[2])
                                             THEN "set" ELSE "unset",
                                     !.same = r.st.pg[rid[1]].data
                                              = rm.st.pg[rid[1]].data],
                         !.live = IF r.res = "Ok" /\ rid \in DOMAIN rm.live
                                  THEN PutKey(rm.live, rid, data)
                                  ELSE rm.live]
  IN /\ rid \in DOMAIN rm.live
     /\ done(update_record(rm.st, rid, data, f))
     /\ UNCHANGED <<bpVars, pf, ix>>

\* update_record at a slot of a data page whose bit is unset: a RID the
\* client never got from insert_record, or one it has deleted
RmUpdateFreed(rid, data, f) ==
  LET done(r) ==
        rm' = [rm EXCEPT !.st = r.st, !.res = r.res,
                         !.wasLive = FALSE, !.gotLive = FALSE, !.got = 0,
                         !.del = "none", !.kept = TRUE,
                         !.note = [NoNote EXCEPT
                                     !.upd = IF f > 0 THEN "unset"
                                             ELSE "failed",
                                     !.same = r.st.pg[rid[1]].data
                                              = rm.st.pg[rid[1]].data]]
  IN /\ rid \in RmRids
     /\ ~BitOf(rm.st.pg[rid[1]].bitmap, rid[2])
     /\ done(update_record(rm.st, rid, data, f))
     /\ UNCHANGED <<bpVars, pf, ix>>

\* num_records and the bitmap of every page, the free head and every
\* next_free are the same in st1 and st2
SameBookkeeping(st1, st2) ==
  /\ st1.free = st2.free
  /\ DOMAIN st1.pg = DOMAIN st2.pg
  /\ \A p \in DOMAIN st1.pg :
       /\ st1.pg[p].bitmap = st2.pg[p].bitmap
       /\ st1.pg[p].next_free = st2.pg[p].next_free
       /\ num_records(st1.h, p) = num_records(st2.h, p)

\* freed after one more delete_record that succeeded, at rid
FreedAfter(note, rid) ==
  IF note.freed.page = rid[1]
  THEN [note.freed EXCEPT !.slots = @ \cup {rid[2]}]
  ELSE [page |-> rid[1], slots |-> {rid[2]}]

\* del: the call deleted at a live RID with no fetch failing ("live"), at
\* a slot whose bit was unset ("unset"), or at another slot ("other");
\* kept: the call left num_records, the bitmaps and the free chain alone
RmDelete(rid, f) ==
  LET done(r) ==
        rm' = [rm EXCEPT !.st = r.st, !.res = r.res,
                         !.wasLive = FALSE, !.gotLive = FALSE, !.got = 0,
                         !.del = IF ~BitOf(rm.st.pg[rid[1]].bitmap, rid[2])
                                 THEN "unset"
                                 ELSE IF rid \in DOMAIN rm.live /\ f > 0
                                 THEN "live" ELSE "other",
                         !.kept = SameBookkeeping(rm.st, r.st),
                         !.note = IF r.res # "Ok" THEN NoNote
                                  ELSE [NoNote EXCEPT
                                          !.freed = FreedAfter(rm.note, rid)],
                         !.live = RemoveKey(rm.live, rid)]
  IN /\ rid \in RmRids
     /\ done(delete_record(rm.st, rid, f))
     /\ UNCHANGED <<bpVars, pf, ix>>

RmAllRids ==
  {<<PageNum(sl), k>> : sl \in 1..RmMaxPages, k \in 0..(RmSlots - 1)}

RmNext ==
  \/ \E data \in RmData, f \in RmFetches : RmInsert(data, f)
  \/ \E rid \in RmAllRids, f \in RmFetches : RmGet(rid, f)
  \/ \E rid \in RmAllRids, data \in RmData, f \in RmFetches :
       RmUpdate(rid, data, f)
  \/ \E rid \in RmAllRids, f \in RmFetches : RmDelete(rid, f)

SpecRM == RmInit /\ [][RmNext]_vars

\* The client of the second record file specification also updates slots
\* it does not hold; it inserts and updates one record content each.
RmuNext ==
  \/ \E f \in RmFetches : RmInsert(1, f)
  \/ \E rid \in RmAllRids, f \in RmFetches : RmDelete(rid, f)
  \/ \E rid \in RmAllRids, f \in RmFetches :
       RmUpdateFreed(rid, RmMaxData, f)

SpecRMU == RmInit /\ [][RmuNext]_vars

\* The client of the third record file specification inserts and deletes
\* records of one content and meets no failure of the pool.
RmtNext ==
  \/ RmInsert(1, RmNoFail)
  \/ \E rid \in RmAllRids : RmDelete(rid, RmNoFail)

SpecRMT == RmInit /\ [][RmtNext]_vars

(***************************************************************************)
(* Record file claims                                                      *)
(***************************************************************************)
RECURSIVE PopCount(_)
\* the number of bits set in a byte
PopCount(num) == IF num = 0 THEN 0 ELSE (num % 2) + PopCount(num \div 2)

RECURSIVE SumBits(_, _)
SumBits(bitmap, i) ==
  IF i > Len(bitmap) THEN 0 ELSE PopCount(bitmap[i]) + SumBits(bitmap, i + 1)

\* C1: get_record of every live RID returns the bytes last written to it by
\* insert_record or update_record, whatever was inserted, updated and
\* deleted at other RIDs; insert_record never returns a live RID.
C1_LiveRecordsReadBack ==
  /\ \A rid \in DOMAIN rm.live :
       /\ get_record(rm.st, rid, 1).res = "Ok"
       /\ get_record(rm.st, rid, 1).data = rm.live[rid]
  /\ ~rm.wasLive
  /\ rm.gotLive => rm.got = 0

C1_Witness_ReadAfterUpdate ==
  /\ rm.gotLive
  /\ Cardinality(DOMAIN rm.live) >= 3
  /\ \E r1 \in DOMAIN rm.live : rm.live[r1] = 1
  /\ \E r2 \in DOMAIN rm.live : rm.live[r2] = 2

\* C6: every record data page has num_records equal to the number of bits
\* set in its bitmap, after calls that succeed and calls that fail.
C6_NumRecordsIsPopcount ==
  \A p \in DOMAIN rm.st.pg :
     num_records(rm.st.h, p) = SumBits(rm.st.pg[p].bitmap, 1)

C6_Witness_AfterFailedDelete ==
  /\ rm.res = "SetBitmapError"
  /\ \E p \in DOMAIN rm.st.pg : num_records(rm.st.h, p) = RmSlots
  /\ \E p \in DOMAIN rm.st.pg : num_records(rm.st.h, p) = 1

\* C19: delete_record succeeds for every RID returned by insert_record and
\* not yet deleted; at a slot whose bitmap bit is unset, such as a RID
\* deleted before, it fails and leaves num_records, the bitmaps and the
\* free-page chain as they were.
C19_DeleteLiveOnceOnly ==
  /\ rm.del = "live" => rm.res = "Ok"
  /\ rm.del = "unset" => rm.res # "Ok" /\ rm.kept

C19_Witness_SecondDeleteRejected ==
  /\ rm.del = "unset"
  /\ rm.res = "SetBitmapError"
  /\ rm.kept
  /\ Cardinality(DOMAIN rm.st.pg) = RmMaxPages
  /\ \E p \in DOMAIN rm.st.pg : num_records(rm.st.h, p) = 1

\* C21: insert_record stores the record in the lowest slot whose bitmap
\* bit is unset in the page it uses; after the slots 0..k-1 of a page have
\* been deleted, the next k inserts return the slots 0..k-1 of that page,
\* in this order.
C21_InsertTakesLowestFreeSlot ==
  /\ rm.note.ins.page # 0 => rm.note.ins.slot = rm.note.ins.low
  /\ rm.note.reuse.i >= 1 =>
       /\ rm.note.ins.page = rm.note.reuse.page
       /\ rm.note.ins.slot = rm.note.reuse.i - 1

C21_Witness_FreedSlotsReused ==
  /\ rm.note.reuse.k = RmSlots
  /\ rm.note.reuse.i = RmSlots
  /\ rm.note.ins.slot = RmSlots - 1
  /\ Cardinality(DOMAIN rm.st.pg) = RmMaxPages
  /\ rm.note.ins.page # rm.st.h.num_pages - 1 + PageNum(0)

\* C22: update_record at a RID whose bitmap bit is unset, never inserted
\* or deleted, fails with NotFound and leaves the bytes of the slot as
\* they were.
C22_UpdateOfUnsetSlotRejected ==
  rm.note.upd = "unset" => rm.res = "NotFound" /\ rm.note.same

RECURSIVE RmChainFrom(_, _, _)
\* the pages reached from page over next_free in at most fuel steps
RmChainFrom(st, page, fuel) ==
  IF page = 0 \/ fuel = 0 \/ page \notin DOMAIN st.pg THEN {}
  ELSE {page} \cup RmChainFrom(st, st.pg[page].next_free, fuel - 1)

\* the pages on the free-page chain of the handle
RmFreeChain(st) == RmChainFrom(st, st.free, Cardinality(DOMAIN st.pg))

\* C38: insert_record ends, with a RID or with an error, from every state of
\* the free-page chain that earlier insert_record and delete_record calls
\* reach, repeated deletes from one page included: its walk over full pages
\* does not go on for ever and does not panic.
C38_InsertRecordTerminates == rm.res \notin {"diverge", "panic"}

\* an insert_record has passed the same full page twice, a page that earlier
\* deletes had made its own next_free, and has returned a RID
C38_Witness_WalkedSelfLinkedPage ==
  /\ rm.note.loop
  /\ rm.note.walk = 2
  /\ rm.res = "Ok"
  /\ rm.note.ins.page # 0

\* C39: insert_record and delete_record write client payload only: the
\* PageHeader of every data page keeps the page id and the next_free (0) that
\* allocate_page gave it, whatever record operations are made.
C39_PageHeadersKept ==
  \A p \in DOMAIN rm.st.pg :
     rm.st.h.pages[p] = [page_num |-> p, next_free |-> 0]

\* C20: a record data page is on the free-page chain, reachable from the
\* free head of the handle over next_free, if and only if its num_records
\* is below num_records_per_page.
C20_ChainIsPagesWithRoom ==
  \A p \in DOMAIN rm.st.pg :
     p \in RmFreeChain(rm.st)
       <=> num_records(rm.st.h, p) < RecordFileHeader.num_records_per_page


(***************************************************************************)
(* B+ tree index, src/src/indexing/index_handle.rs.  The index state st is *)
(* [h, nodes, root_ph, header, f, ub]: h is the page file of the index,    *)
(* nodes maps a page number to the node or bucket stored in the page,      *)
(* root_ph is the page of the root handle, header holds max_keys and       *)
(* max_bucket_entries.  f and ub are inputs of one call: f is the number   *)
(* of pool calls that succeed before one fails (IxMaxFetch: none fails),   *)
(* ub is what a read through an out-of-bounds key pointer produces.        *)
(* A page handle keeps its data pointer after the page is unpinned; the    *)
(* pool is taken to be large enough that no frame of the index is evicted  *)
(* during a call, so a store through such a pointer reaches the page.      *)
(* usize and u32 sentinels are scaled to fit the integers of TLC:          *)
(* NO_MORE_SLOTS stands for 1<<32, BEGINNING_OF_SLOT for 1<<32 + 1, which  *)
(* Rust parses as 1<<33.                                                   *)
(***************************************************************************)
NO_MORE_SLOTS == 536870912
BEGINNING_OF_SLOT == 1073741824
NO_MORE_PAGES == 0

\* max_keys of an index header ranges over 2..IxMaxKeys
IxMaxKeys == 2
max_bucket_entries == 2
\* keys are 1..IxMaxKey, rids are slots 1..IxMaxRid of one record page
IxMaxKey == 3
IxMaxRid == 2
IxMaxPages == 3
IxMaxFetch == 1
IxMaxPin == 2

\* outcomes that end the process or that the source leaves without a value
Halts == {"panic", "segv", "diverges", "overflow", "undefined"}

ErrAs(res, e) == IF res \in Halts THEN res ELSE e

\* the read through an out-of-bounds pointer faults
Segv == 0 - 1

RID_new(page_num, slot_num) == [page_num |-> page_num, slot_num |-> slot_num]

compare(val1, val2) ==
  IF val1 < val2 THEN "Less"
  ELSE IF val1 = val2 THEN "Equal"
  ELSE "Greater"

ix_tick(st) == IF st.f = IxMaxFetch THEN st ELSE [st EXCEPT !.f = @ - 1]

ix_get_page(st, page_num) ==
  LET done(g) ==
        IF g.res # "Ok" THEN [st |-> st, res |-> "GetPageError"]
        ELSE [st |-> ix_tick([st EXCEPT !.h = g.h]), res |-> "Ok"]
  IN done(pfh_get_page(st.h, page_num, st.f > 0))

ix_unpin_dirty_page(st, page_num) ==
  LET done(u) ==
        IF u.res # "Ok" THEN [st |-> st, res |-> "UnpinPageError"]
        ELSE [st |-> [st EXCEPT !.h = u.h], res |-> "Ok"]
  IN done(pfh_unpin_dirty_page(st.h, page_num))

ix_dispose_page(st, page_num) ==
  LET done(d) ==
        IF d.res # "Ok"
        THEN [st |-> [st EXCEPT !.h = d.h], res |-> "DisposePageError"]
        ELSE [st |-> ix_tick([st EXCEPT !.h = d.h]), res |-> "Ok"]
  IN done(pfh_dispose_page(st.h, page_num, st.f > 0))

create_new_node(st, is_leaf) ==
  LET node ==
        [kind |-> "node", is_leaf |-> is_leaf, is_empty |-> TRUE,
         num_keys |-> 0, free_slot |-> 0, first_slot |-> NO_MORE_SLOTS,
         num1 |-> 0, num2 |-> 0,
         entries |-> [i \in 0..(st.header.max_keys - 1) |->
                        [et_type |-> "Unoccupied", page_num |-> 0,
                         slot_num |-> 0,
                         next_slot |-> IF i = st.header.max_keys - 1
                                       THEN NO_MORE_SLOTS ELSE i + 1]],
         keys |-> [i \in 0..(st.header.max_keys - 1) |-> 0]]
      unpinned(st1, page, u) ==
        IF u.res # "Ok"
        THEN [st |-> st1, res |-> "UnpinPageError", page |-> 0]
        ELSE [st |-> [st1 EXCEPT !.h = u.h], res |-> "Ok", page |-> page]
      allocated(a) ==
        IF a.res # "Ok"
        THEN [st |-> [st EXCEPT !.h = a.h], res |-> "AllocatePageError",
              page |-> 0]
        ELSE unpinned(ix_tick([st EXCEPT !.h = a.h,
                                         !.nodes = PutKey(st.nodes, a.page,
                                                          node)]),
                      a.page, pfh_unpin_dirty_page(a.h, a.page))
  IN allocated(pfh_allocate_page(st.h, st.f > 0))

create_new_bucket(st) ==
  LET bucket ==
        [kind |-> "bucket", num_keys |-> 0, free_slot |-> 0,
         first_slot |-> NO_MORE_SLOTS, next_bucket |-> 0,
         entries |-> [i \in 0..(st.header.max_bucket_entries - 1) |->
                        [page_num |-> 0, slot_num |-> 0,
                         next_slot |->
                           IF i = st.header.max_bucket_entries - 1
                           THEN NO_MORE_SLOTS ELSE i + 1]]]
      unpinned(st1, page, u) ==
        IF u.res # "Ok"
        THEN [st |-> st1, res |-> "UnpinPageError", page |-> 0]
        ELSE [st |-> [st1 EXCEPT !.h = u.h], res |-> "Ok", page |-> page]
      allocated(a) ==
        IF a.res # "Ok"
        THEN [st |-> [st EXCEPT !.h = a.h], res |-> "AllocatePageError",
              page |-> 0]
        ELSE unpinned(ix_tick([st EXCEPT !.h = a.h,
                                         !.nodes = PutKey(st.nodes, a.page,
                                                          bucket)]),
                      a.page, pfh_unpin_dirty_page(a.h, a.page))
  IN allocated(pfh_allocate_page(st.h, st.f > 0))

\* the loop of find_node_insert_index; a chain that comes back on itself
\* never ends the loop, an index past the entries faults
RECURSIVE find_walk(_, _, _, _, _, _)
find_walk(node, val, prev_index, curr_index, is_dup, fuel) ==
  IF curr_index = NO_MORE_SLOTS
  THEN [res |-> "Ok", prev_index |-> prev_index, is_dup |-> is_dup]
  ELSE IF curr_index \notin DOMAIN node.entries
  THEN [res |-> "panic", prev_index |-> prev_index, is_dup |-> is_dup]
  ELSE IF fuel = 0
  THEN [res |-> "diverges", prev_index |-> prev_index, is_dup |-> is_dup]
  ELSE IF compare(val, node.keys[curr_index]) = "Less"
  THEN [res |-> "Ok", prev_index |-> prev_index, is_dup |-> is_dup]
  ELSE find_walk(node, val, curr_index, node.entries[curr_index].next_slot,
                 is_dup \/ compare(val, node.keys[curr_index]) = "Equal",
                 fuel - 1)

find_node_insert_index(val, node) ==
  find_walk(node, val, BEGINNING_OF_SLOT, node.first_slot, FALSE,
            Cardinality(DOMAIN node.entries))

RECURSIVE find_prev_index(_, _, _, _)
find_prev_index(entries, start, target, fuel) ==
  IF start = NO_MORE_SLOTS
  THEN [res |-> "EntriesBroken", prev_index |-> start]
  ELSE IF start \notin DOMAIN entries
  THEN [res |-> "panic", prev_index |-> start]
  ELSE IF entries[start].next_slot = target
  THEN [res |-> "Ok", prev_index |-> start]
  ELSE IF fuel = 0
  THEN [res |-> "diverges", prev_index |-> start]
  ELSE find_prev_index(entries, entries[start].next_slot, target, fuel - 1)

\* insert_into_nonfull_node, leaf without an equal key: the free slot
\* index takes the key and the rid and is linked after prev_index
leaf_insert_new(node, prev_index, key_val, rid) ==
  LET index == node.free_slot
      linked(n1) ==
        IF prev_index = BEGINNING_OF_SLOT
        THEN [n1 EXCEPT !.entries[index].next_slot = NO_MORE_SLOTS,
                        !.first_slot = index]
        ELSE [n1 EXCEPT !.entries[index].next_slot =
                           n1.entries[prev_index].next_slot,
                        !.entries[prev_index].next_slot = index]
  IN linked([node EXCEPT !.keys[index] = key_val,
                         !.is_empty = FALSE,
                         !.num_keys = @ + 1,
                         !.free_slot = node.entries[index].next_slot,
                         !.entries[index].et_type = "New",
                         !.entries[index].page_num = rid.page_num,
                         !.entries[index].slot_num = rid.slot_num])

\* the rid takes the free slot loc, which becomes the first slot
bucket_put(bucket, rid) ==
  LET loc == bucket.free_slot
  IN [bucket EXCEPT !.entries[loc].page_num = rid.page_num,
                    !.entries[loc].slot_num = rid.slot_num,
                    !.free_slot = bucket.entries[loc].next_slot,
                    !.entries[loc].next_slot = bucket.first_slot,
                    !.first_slot = loc,
                    !.num_keys = @ + 1]

\* one pass of the loop of insert_into_bucket, entered with flag true
RECURSIVE insert_into_bucket(_, _, _, _)
insert_into_bucket(st, ph, rid, fuel) ==
  LET next(g, ph2, flag) ==
        IF g.res # "Ok" THEN [st |-> g.st, res |-> "GetPageError"]
        ELSE IF ~flag THEN [st |-> g.st, res |-> "Ok"]
        ELSE IF fuel = 0 THEN [st |-> g.st, res |-> "diverges"]
        ELSE insert_into_bucket(g.st, ph2, rid, fuel - 1)
      fetch(st1, ph1, flag) ==
        next(ix_get_page(st1, st1.nodes[ph1].next_bucket),
             st1.nodes[ph1].next_bucket, flag)
      after_unpin(u, ph1, flag) ==
        IF u.res # "Ok" THEN [st |-> u.st, res |-> "UnpinPageError"]
        ELSE fetch(u.st, ph1, flag)
      tail(st1, ph1, flag) ==
        IF st1.nodes[ph1].next_bucket # NO_MORE_PAGES
        THEN fetch(st1, ph1, flag)
        ELSE IF st1.nodes[ph1].free_slot
                  \notin DOMAIN st1.nodes[ph1].entries
        THEN [st |-> st1, res |-> "panic"]
        ELSE after_unpin(
               ix_unpin_dirty_page(
                 [st1 EXCEPT !.nodes[ph1] = bucket_put(st1.nodes[ph1], rid)],
                 ph1),
               ph1, flag)
      after_old_unpin(u, new_ph) ==
        IF u.res # "Ok" THEN [st |-> u.st, res |-> "UnpinPageError"]
        ELSE tail(u.st, new_ph, FALSE)
      grown(c) ==
        IF c.res # "Ok" THEN [st |-> c.st, res |-> c.res]
        ELSE after_old_unpin(
               ix_unpin_dirty_page(
                 [c.st EXCEPT !.nodes[ph].next_bucket = c.page], ph),
               c.page)
  IN IF /\ st.nodes[ph].next_bucket = NO_MORE_PAGES
        /\ st.nodes[ph].num_keys = st.header.max_bucket_entries
     THEN grown(create_new_bucket(st))
     ELSE tail(st, ph, TRUE)

\* split_node, the walk of max_keys/2 steps to the entry that starts the
\* new node
RECURSIVE split_mid(_, _, _, _)
split_mid(full, prev_index, curr_index, steps) ==
  IF steps = 0
  THEN [res |-> "Ok", prev_index |-> prev_index, curr_index |-> curr_index]
  ELSE IF curr_index \notin DOMAIN full.entries
  THEN [res |-> "panic", prev_index |-> prev_index,
        curr_index |-> curr_index]
  ELSE split_mid(full, curr_index, full.entries[curr_index].next_slot,
                 steps - 1)

\* split_node, one pass of the loop that moves the entries from curr_index
\* on into the new node
move_entry(full, new, curr_index, prev_index2, curr_index2) ==
  LET copied == [new EXCEPT !.entries[curr_index2] =
                              full.entries[curr_index],
                            !.keys[curr_index2] = full.keys[curr_index]]
      linked(n1) ==
        IF prev_index2 = BEGINNING_OF_SLOT
        THEN [n1 EXCEPT !.free_slot = n1.entries[curr_index2].next_slot,
                        !.entries[curr_index2].next_slot = n1.first_slot,
                        !.first_slot = curr_index2]
        ELSE [n1 EXCEPT !.free_slot = n1.entries[curr_index2].next_slot,
                        !.entries[curr_index2].next_slot =
                           n1.entries[prev_index2].next_slot,
                        !.entries[prev_index2].next_slot = curr_index2]
      counted(n2) ==
        [full |-> [full EXCEPT !.entries[curr_index].next_slot =
                                  full.free_slot,
                               !.free_slot = curr_index,
                               !.num_keys = @ - 1],
         new |-> [n2 EXCEPT !.num_keys = @ + 1],
         curr_index |-> full.entries[curr_index].next_slot,
         prev_index2 |-> curr_index2,
         curr_index2 |-> n2.entries[curr_index2].next_slot]
  IN counted(linked(copied))

RECURSIVE move_entries(_, _, _, _, _, _)
move_entries(full, new, curr_index, prev_index2, curr_index2, fuel) ==
  LET moved(m) ==
        move_entries(m.full, m.new, m.curr_index, m.prev_index2,
                     m.curr_index2, fuel - 1)
  IN IF curr_index = NO_MORE_SLOTS
     THEN [res |-> "Ok", full |-> full, new |-> new]
     ELSE IF \/ curr_index \notin DOMAIN full.entries
             \/ curr_index2 \notin DOMAIN new.entries
     THEN [res |-> "panic", full |-> full, new |-> new]
     ELSE IF full.num_keys = 0
     THEN [res |-> "overflow", full |-> full, new |-> new]
     ELSE IF fuel = 0
     THEN [res |-> "diverges", full |-> full, new |-> new]
     ELSE moved(move_entry(full, new, curr_index, prev_index2, curr_index2))

\* split_node, the promoted key enters the parent at its free slot loc,
\* after parent_prev_index; page_num and et_type of the entry are not set
parent_insert(parent, parent_key, parent_prev_index) ==
  LET loc == parent.free_slot
      keyed == [parent EXCEPT !.keys[loc] = parent_key]
      linked(p1) ==
        IF parent_prev_index = BEGINNING_OF_SLOT
        THEN [p1 EXCEPT !.free_slot = p1.entries[loc].next_slot,
                        !.entries[loc].next_slot = p1.first_slot,
                        !.first_slot = loc]
        ELSE [p1 EXCEPT !.free_slot = p1.entries[loc].next_slot,
                        !.entries[loc].next_slot =
                           p1.entries[parent_prev_index].next_slot,
                        !.entries[parent_prev_index].next_slot = loc]
      counted(p2) == [p2 EXCEPT !.num_keys = @ + 1]
  IN counted(linked(keyed))

\* split_node, the new leaf is linked between the full leaf and its next
split_node_link(st, full_ph, new_ph, loc) ==
  LET next_page == st.nodes[full_ph].num2
      after_unpin(u) ==
        IF u.res # "Ok"
        THEN [st |-> u.st, res |-> "UnpinPageError", loc |-> loc,
              page |-> new_ph]
        ELSE [st |-> u.st, res |-> "Ok", loc |-> loc, page |-> new_ph]
      after_get(g) ==
        IF g.res # "Ok"
        THEN [st |-> g.st, res |-> "GetPageError", loc |-> loc,
              page |-> new_ph]
        ELSE after_unpin(
               ix_unpin_dirty_page(
                 [g.st EXCEPT !.nodes[next_page].num1 = new_ph], next_page))
      relinked(st1) ==
        IF next_page # NO_MORE_PAGES
        THEN after_get(ix_get_page(st1, next_page))
        ELSE [st |-> st1, res |-> "Ok", loc |-> loc, page |-> new_ph]
  IN relinked([st EXCEPT !.nodes[new_ph].num1 = full_ph,
                         !.nodes[new_ph].num2 = next_page,
                         !.nodes[full_ph].num2 = new_ph])

split_node(st, parent_ph, full_ph, is_leaf, parent_prev_index) ==
  LET halt(st1, res) == [st |-> st1, res |-> res, loc |-> 0, page |-> 0]
      \* parent_key points at the key of the entry the walk stopped at
      promote(st1, new_ph, mid_index, m) ==
        IF m.res # "Ok" THEN halt(st1, m.res)
        ELSE IF mid_index \notin DOMAIN m.full.keys /\ st1.ub = Segv
        THEN halt(st1, "segv")
        ELSE IF st1.nodes[parent_ph].free_slot
                  \notin DOMAIN st1.nodes[parent_ph].entries
        THEN halt(st1, "panic")
        ELSE IF ~is_leaf
        THEN [st |-> [st1 EXCEPT
                        !.nodes[full_ph] = m.full,
                        !.nodes[new_ph] = m.new,
                        !.nodes[parent_ph] =
                           parent_insert(
                             st1.nodes[parent_ph],
                             IF mid_index \in DOMAIN m.full.keys
                             THEN m.full.keys[mid_index] ELSE st1.ub,
                             parent_prev_index)],
              res |-> "Ok", loc |-> st1.nodes[parent_ph].free_slot,
              page |-> new_ph]
        ELSE split_node_link(
               [st1 EXCEPT
                  !.nodes[full_ph] = m.full,
                  !.nodes[new_ph] = m.new,
                  !.nodes[parent_ph] =
                     parent_insert(
                       st1.nodes[parent_ph],
                       IF mid_index \in DOMAIN m.full.keys
                       THEN m.full.keys[mid_index] ELSE st1.ub,
                       parent_prev_index)],
               full_ph, new_ph, st1.nodes[parent_ph].free_slot)
      \* the entry at curr_index gives the first child of a new internal
      \* node and is unlinked from the full node
      cut(st1, new_ph, full, new, prev_index, curr_index) ==
        IF prev_index \notin DOMAIN full.entries
        THEN halt(st1, "panic")
        ELSE IF is_leaf
        THEN promote(st1, new_ph, curr_index,
                     move_entries(
                       [full EXCEPT !.entries[prev_index].next_slot =
                                       NO_MORE_SLOTS],
                       new, curr_index, BEGINNING_OF_SLOT, new.free_slot,
                       Cardinality(DOMAIN full.entries)))
        ELSE IF curr_index \notin DOMAIN full.entries
        THEN halt(st1, "panic")
        ELSE IF full.num_keys = 0
        THEN halt(st1, "overflow")
        ELSE promote(st1, new_ph, curr_index,
                     move_entries(
                       [full EXCEPT !.entries[prev_index].next_slot =
                                       NO_MORE_SLOTS,
                                    !.entries[curr_index].next_slot =
                                       full.free_slot,
                                    !.free_slot = curr_index,
                                    !.num_keys = @ - 1],
                       [new EXCEPT !.num1 =
                                      full.entries[curr_index].page_num,
                                   !.is_empty = FALSE],
                       full.entries[curr_index].next_slot,
                       BEGINNING_OF_SLOT, new.free_slot,
                       Cardinality(DOMAIN full.entries)))
      located(st1, new_ph, w) ==
        IF w.res # "Ok" THEN halt(st1, w.res)
        ELSE cut(st1, new_ph, st1.nodes[full_ph], st1.nodes[new_ph],
                 w.prev_index, w.curr_index)
      created(c) ==
        IF c.res # "Ok" THEN halt(c.st, c.res)
        ELSE located(c.st, c.page,
                     split_mid(c.st.nodes[full_ph], BEGINNING_OF_SLOT,
                               c.st.nodes[full_ph].first_slot,
                               c.st.header.max_keys \div 2))
  IN created(create_new_node(st, is_leaf))

RECURSIVE insert_into_nonfull_node(_, _, _, _, _)
insert_into_nonfull_node(st, node_ph, key_val, rid, fuel) ==
  LET \* leaf, an entry with an equal key exists at prev_index
      converted(i2, bucket_ph, prev_index) ==
        IF i2.res # "Ok" THEN i2
        ELSE [st |-> [i2.st EXCEPT
                        !.nodes[node_ph].entries[prev_index].et_type =
                           "Duplicate",
                        !.nodes[node_ph].entries[prev_index].page_num =
                           bucket_ph],
              res |-> "Ok"]
      second(i1, bucket_ph, prev_index) ==
        IF i1.res # "Ok" THEN i1
        ELSE converted(
               insert_into_bucket(
                 i1.st, bucket_ph,
                 RID_new(st.nodes[node_ph].entries[prev_index].page_num,
                         st.nodes[node_ph].entries[prev_index].slot_num),
                 IxMaxPages),
               bucket_ph, prev_index)
      bucketed(c, prev_index) ==
        IF c.res # "Ok" THEN [st |-> c.st, res |-> c.res]
        ELSE second(insert_into_bucket(c.st, c.page, rid, IxMaxPages),
                    c.page, prev_index)
      fetched(g, bucket_ph) ==
        IF g.res # "Ok" THEN [st |-> g.st, res |-> "GetPageError"]
        ELSE insert_into_bucket(g.st, bucket_ph, rid, IxMaxPages)
      duplicate(prev_index) ==
        IF st.nodes[node_ph].entries[prev_index].et_type = "Unoccupied"
        THEN [st |-> st, res |-> "AbnormalEntryType"]
        ELSE IF st.nodes[node_ph].entries[prev_index].et_type = "New"
        THEN bucketed(create_new_bucket(st), prev_index)
        ELSE fetched(
               ix_get_page(st,
                           st.nodes[node_ph].entries[prev_index].page_num),
               st.nodes[node_ph].entries[prev_index].page_num)
      leaf(fi) ==
        IF fi.res # "Ok" THEN [st |-> st, res |-> fi.res]
        ELSE IF fi.is_dup THEN duplicate(fi.prev_index)
        ELSE IF st.nodes[node_ph].free_slot
                  \notin DOMAIN st.nodes[node_ph].entries
        THEN [st |-> st, res |-> "panic"]
        ELSE [st |-> [st EXCEPT !.nodes[node_ph] =
                        leaf_insert_new(st.nodes[node_ph], fi.prev_index,
                                        key_val, rid)],
              res |-> "Ok"]
      \* internal node
      after_rec(r, ph) ==
        IF r.res # "Ok" THEN r
        ELSE ix_unpin_dirty_page(r.st, ph)
      descend(st1, ph) ==
        IF fuel = 0 THEN [st |-> st1, res |-> "diverges"]
        ELSE after_rec(
               insert_into_nonfull_node(st1, ph, key_val, rid, fuel - 1),
               ph)
      after_unpin(u, ph) ==
        IF u.res # "Ok" THEN u ELSE descend(u.st, ph)
      after_split(s, next_node) ==
        IF s.res # "Ok" THEN [st |-> s.st, res |-> s.res]
        ELSE IF compare(key_val, s.st.nodes[node_ph].keys[s.loc]) = "Less"
        THEN after_unpin(ix_unpin_dirty_page(s.st, s.page), next_node)
        ELSE after_unpin(ix_unpin_dirty_page(s.st, next_node), s.page)
      got(g, next_node, prev_index) ==
        IF g.res # "Ok" THEN [st |-> g.st, res |-> "GetPageError"]
        ELSE IF g.st.nodes[next_node].num_keys = st.header.max_keys
        THEN after_split(
               split_node(g.st, node_ph, next_node,
                          g.st.nodes[next_node].is_leaf, prev_index),
               next_node)
        ELSE descend(g.st, next_node)
      internal(fi) ==
        IF fi.res # "Ok" THEN [st |-> st, res |-> fi.res]
        ELSE IF fi.prev_index = BEGINNING_OF_SLOT
        THEN got(ix_get_page(st, st.nodes[node_ph].num1),
                 st.nodes[node_ph].num1, fi.prev_index)
        ELSE got(ix_get_page(st,
                             st.nodes[node_ph].entries[fi.prev_index]
                               .page_num),
                 st.nodes[node_ph].entries[fi.prev_index].page_num,
                 fi.prev_index)
  IN IF st.nodes[node_ph].is_leaf
     THEN leaf(find_node_insert_index(key_val, st.nodes[node_ph]))
     ELSE internal(find_node_insert_index(key_val, st.nodes[node_ph]))

insert_entry(st, key_val, rid) ==
  LET inserted(r) ==
        IF r.res # "Ok"
        THEN [st |-> r.st, res |-> ErrAs(r.res, "InsertIntoNonFullNodeError")]
        ELSE r
      descend(st1) ==
        inserted(insert_into_nonfull_node(st1, st1.root_ph, key_val, rid,
                                          IxMaxPages))
      after_unpin(u, new_root_ph) ==
        IF u.res # "Ok" THEN u
        ELSE descend([u.st EXCEPT !.root_ph = new_root_ph])
      after_split(s, new_root_ph) ==
        IF s.res # "Ok"
        THEN [st |-> s.st, res |-> ErrAs(s.res, "SplitNodeError")]
        ELSE after_unpin(ix_unpin_dirty_page(s.st, st.root_ph), new_root_ph)
      created(c) ==
        IF c.res # "Ok" THEN [st |-> c.st, res |-> "CreateNewNodeError"]
        ELSE after_split(
               split_node([c.st EXCEPT !.nodes[c.page].is_empty = FALSE,
                                       !.nodes[c.page].num1 = st.root_ph],
                          c.page, st.root_ph, st.nodes[st.root_ph].is_leaf,
                          BEGINNING_OF_SLOT),
               c.page)
  IN IF st.nodes[st.root_ph].num_keys = st.header.max_keys
     THEN created(create_new_node(st, FALSE))
     ELSE descend(st)

NoIxRid == RID_new(0, 0)

\* delete_from_bucket, the search of one bucket for the rid
RECURSIVE bucket_find(_, _, _, _, _)
bucket_find(bucket, rid, prev_index, curr_index, fuel) ==
  IF curr_index = NO_MORE_SLOTS
  THEN [res |-> "EntryNotFoundInBucket", bucket |-> bucket]
  ELSE IF curr_index \notin DOMAIN bucket.entries
  THEN [res |-> "panic", bucket |-> bucket]
  ELSE IF /\ bucket.entries[curr_index].page_num = rid.page_num
          /\ bucket.entries[curr_index].slot_num = rid.slot_num
  THEN IF bucket.num_keys = 0
       THEN [res |-> "overflow", bucket |-> bucket]
       ELSE IF bucket.first_slot = curr_index
       THEN [res |-> "Ok",
             bucket |-> [bucket EXCEPT
                           !.entries[curr_index].next_slot =
                              bucket.free_slot,
                           !.free_slot = curr_index,
                           !.first_slot =
                              bucket.entries[curr_index].next_slot,
                           !.num_keys = @ - 1]]
       ELSE [res |-> "Ok",
             bucket |-> [bucket EXCEPT
                           !.entries[curr_index].next_slot =
                              bucket.free_slot,
                           !.free_slot = curr_index,
                           !.entries[prev_index].next_slot =
                              bucket.entries[curr_index].next_slot,
                           !.num_keys = @ - 1]]
  ELSE IF fuel = 0
  THEN [res |-> "diverges", bucket |-> bucket]
  ELSE bucket_find(bucket, rid, curr_index,
                   bucket.entries[curr_index].next_slot, fuel - 1)

\* the last rid of a bucket is put back into a bucket with a free slot
bucket_take_last(bucket, last_rid) ==
  LET loc == bucket.free_slot
  IN IF bucket.first_slot = BEGINNING_OF_SLOT
     THEN [bucket EXCEPT !.entries[loc].page_num = last_rid.page_num,
                         !.entries[loc].slot_num = last_rid.slot_num,
                         !.free_slot = bucket.entries[loc].next_slot,
                         !.first_slot = loc,
                         !.entries[loc].next_slot = NO_MORE_SLOTS,
                         !.num_keys = @ + 1]
     ELSE [bucket EXCEPT !.entries[loc].page_num = last_rid.page_num,
                         !.entries[loc].slot_num = last_rid.slot_num,
                         !.free_slot = bucket.entries[loc].next_slot,
                         !.entries[loc].next_slot = bucket.first_slot,
                         !.first_slot = loc,
                         !.num_keys = @ + 1]

\* last_rid is NoIxRid for None
RECURSIVE delete_from_bucket(_, _, _, _)
delete_from_bucket(st, rid, bucket_ph, fuel) ==
  LET ret(st1, res, to_delete, last_rid, next_next_bucket) ==
        [st |-> st1, res |-> res, to_delete |-> to_delete,
         last_rid |-> last_rid, next_next_bucket |-> next_next_bucket]
      \* the search of this bucket
      found_here(st1, s) ==
        IF s.res # "Ok" THEN ret(st1, s.res, FALSE, NoIxRid, NO_MORE_PAGES)
        ELSE IF s.bucket.num_keys = 1
        THEN ret([st1 EXCEPT !.nodes[bucket_ph] = s.bucket], "Ok", TRUE,
                 RID_new(s.bucket.entries[s.bucket.first_slot].page_num,
                         s.bucket.entries[s.bucket.first_slot].slot_num),
                 s.bucket.next_bucket)
        ELSE IF s.bucket.num_keys = 0
        THEN ret([st1 EXCEPT !.nodes[bucket_ph] = s.bucket], "Ok", TRUE,
                 NoIxRid, s.bucket.next_bucket)
        ELSE ret([st1 EXCEPT !.nodes[bucket_ph] = s.bucket], "Ok", FALSE,
                 NoIxRid, NO_MORE_PAGES)
      here(st1) ==
        IF st1.nodes[bucket_ph].first_slot
             \in {NO_MORE_SLOTS, BEGINNING_OF_SLOT}
        THEN ret(st1, "InvalidBucket", FALSE, NoIxRid, NO_MORE_PAGES)
        ELSE found_here(st1,
                        bucket_find(st1.nodes[bucket_ph], rid,
                                    BEGINNING_OF_SLOT,
                                    st1.nodes[bucket_ph].first_slot,
                                    Cardinality(
                                      DOMAIN st1.nodes[bucket_ph].entries)))
      \* the rid was found in the next bucket
      disposed(d, next_next_bucket) ==
        IF d.res # "Ok"
        THEN ret(d.st, "DisposePageError", FALSE, NoIxRid, NO_MORE_PAGES)
        ELSE ret([d.st EXCEPT !.nodes[bucket_ph].next_bucket =
                                 next_next_bucket],
                 "Ok", FALSE, NoIxRid, next_next_bucket)
      emptied(st1, next_ph, to_delete, next_next_bucket) ==
        IF to_delete /\ st1.nodes[next_ph].num_keys = 0
        THEN disposed(ix_dispose_page(st1, next_ph), next_next_bucket)
        ELSE ret(st1, "Ok", FALSE, NoIxRid, next_next_bucket)
      found_next(st1, next_ph, r) ==
        IF /\ r.to_delete
           /\ st1.nodes[next_ph].num_keys = 1
           /\ st1.nodes[bucket_ph].free_slot # NO_MORE_SLOTS
        THEN IF st1.nodes[bucket_ph].free_slot
                  \notin DOMAIN st1.nodes[bucket_ph].entries
             THEN ret(st1, "panic", FALSE, NoIxRid, NO_MORE_PAGES)
             ELSE emptied([st1 EXCEPT
                             !.nodes[bucket_ph] =
                                bucket_take_last(st1.nodes[bucket_ph],
                                                 r.last_rid),
                             !.nodes[next_ph].num_keys = @ - 1],
                          next_ph, r.to_delete, r.next_next_bucket)
        ELSE emptied(st1, next_ph, r.to_delete, r.next_next_bucket)
      after_unpin(u, next_ph, r, found) ==
        IF u.res # "Ok"
        THEN ret(u.st, "UnpinPageError", FALSE, NoIxRid, NO_MORE_PAGES)
        ELSE IF found THEN found_next(u.st, next_ph, r)
        ELSE here(u.st)
      searched(r, next_ph) ==
        IF r.res = "EntryNotFoundInBucket"
        THEN after_unpin(ix_unpin_dirty_page(r.st, next_ph), next_ph, r,
                         FALSE)
        ELSE IF r.res # "Ok" THEN r
        ELSE IF r.last_rid = NoIxRid THEN r
        ELSE after_unpin(ix_unpin_dirty_page(r.st, next_ph), next_ph, r,
                         TRUE)
      fetched(g, next_ph) ==
        IF g.res # "Ok"
        THEN ret(g.st, "GetPageError", FALSE, NoIxRid, NO_MORE_PAGES)
        ELSE IF fuel = 0
        THEN ret(g.st, "diverges", FALSE, NoIxRid, NO_MORE_PAGES)
        ELSE searched(delete_from_bucket(g.st, rid, next_ph, fuel - 1),
                      next_ph)
  IN IF st.nodes[bucket_ph].next_bucket # NO_MORE_PAGES
     THEN fetched(ix_get_page(st, st.nodes[bucket_ph].next_bucket),
                  st.nodes[bucket_ph].next_bucket)
     ELSE here(st)

\* the source returns Ok(()) where the signature has a pair, so a
\* successful delete_from_leaf gives its caller no to_delete and no key
delete_from_leaf(st, key_val, rid, leaf_node) ==
  LET leaf == st.nodes[leaf_node]
      \* Duplicate entry
      refilled(st1, bucket_ph, r) ==
        IF /\ r.to_delete
           /\ r.last_rid # NoIxRid
           /\ st1.nodes[bucket_ph].free_slot # NO_MORE_SLOTS
        THEN IF st1.nodes[bucket_ph].free_slot
                  \notin DOMAIN st1.nodes[bucket_ph].entries
             THEN [st |-> st1, res |-> "panic"]
             ELSE [st |-> [st1 EXCEPT !.nodes[bucket_ph] =
                             bucket_take_last(st1.nodes[bucket_ph],
                                              r.last_rid)],
                   res |-> "Ok"]
        ELSE [st |-> st1, res |-> "Ok"]
      after_unpin(u, bucket_ph, r) ==
        IF u.res # "Ok" THEN u ELSE refilled(u.st, bucket_ph, r)
      deleted(r, bucket_ph) ==
        IF r.res = "EntryNotFoundInBucket"
        THEN [st |-> r.st, res |-> "InvalidEntry"]
        ELSE IF r.res # "Ok" THEN [st |-> r.st, res |-> r.res]
        ELSE after_unpin(ix_unpin_dirty_page(r.st, bucket_ph), bucket_ph, r)
      fetched(g, bucket_ph) ==
        IF g.res # "Ok" THEN [st |-> g.st, res |-> "GetPageError"]
        ELSE deleted(delete_from_bucket(g.st, rid, bucket_ph, IxMaxPages),
                     bucket_ph)
      \* New entry
      unlinked(curr_index, prev_index) ==
        IF curr_index = leaf.first_slot
        THEN [leaf EXCEPT !.entries[curr_index].et_type = "Unoccupied",
                          !.num_keys = @ - 1,
                          !.entries[curr_index].next_slot = leaf.free_slot,
                          !.free_slot = curr_index,
                          !.first_slot = leaf.entries[curr_index].next_slot]
        ELSE [leaf EXCEPT !.entries[curr_index].et_type = "Unoccupied",
                          !.num_keys = @ - 1,
                          !.entries[curr_index].next_slot = leaf.free_slot,
                          !.free_slot = curr_index,
                          !.entries[prev_index].next_slot =
                             leaf.entries[curr_index].next_slot]
      typed(curr_index, prev_index) ==
        IF leaf.entries[curr_index].et_type = "Unoccupied"
        THEN [st |-> st, res |-> "UnoccupiedEntry"]
        ELSE IF leaf.entries[curr_index].et_type = "Duplicate"
        THEN fetched(ix_get_page(st, leaf.entries[curr_index].page_num),
                     leaf.entries[curr_index].page_num)
        ELSE IF \/ leaf.entries[curr_index].page_num # rid.page_num
                \/ leaf.entries[curr_index].slot_num # rid.slot_num
        THEN [st |-> st, res |-> "InvalidEntry"]
        ELSE IF leaf.num_keys = 0
        THEN [st |-> st, res |-> "overflow"]
        ELSE [st |-> [st EXCEPT !.nodes[leaf_node] =
                        unlinked(curr_index, prev_index)],
              res |-> "Ok"]
      prev_found(p, curr_index) ==
        IF p.res # "Ok" THEN [st |-> st, res |-> p.res]
        ELSE typed(curr_index, p.prev_index)
      found(fi) ==
        IF fi.res # "Ok" THEN [st |-> st, res |-> fi.res]
        ELSE IF ~fi.is_dup THEN [st |-> st, res |-> "InvalidEntry"]
        ELSE IF fi.prev_index # leaf.first_slot
        THEN prev_found(find_prev_index(leaf.entries, leaf.first_slot,
                                        fi.prev_index,
                                        Cardinality(DOMAIN leaf.entries)),
                        fi.prev_index)
        ELSE typed(fi.prev_index, fi.prev_index)
  IN found(find_node_insert_index(key_val, leaf))

\* always descends into first_child; where the key is also a key of this
\* node the source needs the pair delete_from_leaf does not return
RECURSIVE delete_from_node(_, _, _, _, _)
delete_from_node(st, key_val, rid, node, fuel) ==
  LET ret(st1, res, to_delete) ==
        [st |-> st1, res |-> res, to_delete |-> to_delete]
      after_child(r, is_dup) ==
        IF r.res # "Ok" THEN ret(r.st, r.res, FALSE)
        ELSE IF is_dup THEN ret(r.st, "undefined", FALSE)
        ELSE ret(r.st, "Ok", r.st.nodes[node].num_keys = 0)
      fetched(g, next_page_num, is_dup) ==
        IF g.res # "Ok" THEN ret(g.st, "GetPageError", FALSE)
        ELSE IF g.st.nodes[next_page_num].is_leaf
        THEN after_child(delete_from_leaf(g.st, key_val, rid, next_page_num),
                         is_dup)
        ELSE IF fuel = 0 THEN ret(g.st, "diverges", FALSE)
        ELSE after_child(
               delete_from_node(g.st, key_val, rid, next_page_num, fuel - 1),
               is_dup)
      indexed(curr_index, is_dup) ==
        IF curr_index = BEGINNING_OF_SLOT THEN ret(st, "panic", FALSE)
        ELSE fetched(ix_get_page(st, st.nodes[node].num1),
                     st.nodes[node].num1, is_dup)
      found(fi) ==
        IF fi.res # "Ok" THEN ret(st, fi.res, FALSE)
        ELSE IF fi.prev_index = BEGINNING_OF_SLOT
        THEN indexed(st.nodes[node].num1, fi.is_dup)
        ELSE indexed(fi.prev_index, fi.is_dup)
  IN found(find_node_insert_index(key_val, st.nodes[node]))

delete_entry(st, key_val, rid) ==
  LET from_leaf(r) ==
        IF r.res # "Ok"
        THEN [st |-> r.st, res |-> ErrAs(r.res, "DeleteFromLeafError")]
        ELSE r
      from_node(r) ==
        IF r.res # "Ok"
        THEN [st |-> r.st, res |-> ErrAs(r.res, "DeleteFromNodeError")]
        ELSE IF r.to_delete
        THEN [st |-> [r.st EXCEPT !.nodes[st.root_ph].is_leaf = TRUE],
              res |-> "Ok"]
        ELSE [st |-> r.st, res |-> "Ok"]
  IN IF st.nodes[st.root_ph].is_leaf
     THEN from_leaf(delete_from_leaf(st, key_val, rid, st.root_ph))
     ELSE from_node(delete_from_node(st, key_val, rid, st.root_ph,
                                     IxMaxPages))

(***************************************************************************)
(* Index specification: a client inserts and deletes entries of one index  *)
(* whose root is an empty leaf, laid out as create_new_node lays a leaf    *)
(* out and pinned by the handle the index keeps.  ix.dup records an insert *)
(* without pool failure of a key the tree held with another rid; ix.asc    *)
(* counts the calls so far when they were insert_entry of the keys 1, 2,   *)
(* ... in turn, without pool failure.  ix.pair records an insert_entry     *)
(* without pool failure and a delete_entry of the same key and rid right   *)
(* after it; ix.hist records the entries still to delete while the calls   *)
(* so far were successful inserts of distinct keys followed by deletes of  *)
(* them.                                                                   *)
(***************************************************************************)
IxKeys == 1..IxMaxKey

IxRids == {RID_new(1, sl) : sl \in 1..IxMaxRid}

IxFetches == 0..IxMaxFetch

UbOutcomes == {Segv} \cup IxKeys

IxHeaders ==
  {[max_keys |-> mk, max_bucket_entries |-> max_bucket_entries] :
     mk \in 2..IxMaxKeys}

IxState(x, f, ub) ==
  [h |-> x.h, nodes |-> x.nodes, root_ph |-> x.root_ph,
   header |-> x.header, f |-> f, ub |-> ub]

NoDup == [key |-> 0, rid |-> NoIxRid, prior |-> NoIxRid]

NoPair == [stage |-> "none", key |-> 0, rid |-> NoIxRid]

NoHist == [phase |-> "off", live |-> {}]

NoDel == [miss |-> "none", kept |-> TRUE]

IndexHandle_new(st, root_ph) ==
  [h |-> st.h, nodes |-> st.nodes, root_ph |-> root_ph,
   header |-> st.header, res |-> "Ok", dup |-> NoDup, asc |-> 0,
   ascOk |-> TRUE, pair |-> NoPair,
   hist |-> [phase |-> "ins", live |-> {}],
   call |-> "open", moved |-> {}, del |-> NoDel]

IxOpen(hd) ==
  LET pinned(c) == IndexHandle_new(ix_get_page(c.st, c.page).st, c.page)
  IN pinned(create_new_node(
              [h |-> PageFileHandle_new, nodes |-> <<>>, root_ph |-> 0,
               header |-> hd, f |-> IxMaxFetch, ub |-> Segv],
              TRUE))

IxInit ==
  /\ ix \in {IxOpen(hd) : hd \in IxHeaders}
  /\ bm = BufferManager_new
  /\ disk = [o \in Offsets |-> 0]
  /\ ev = NoEv
  /\ expect = NoExpect
  /\ lastGet = NoGet
  /\ trace = NoTrace
  /\ pf = Idle
  /\ rm = Idle

IxRunning ==
  /\ ix.res \notin Halts
  /\ \A p \in DOMAIN ix.h.pins : ix.h.pins[p] <= IxMaxPin

\* the entry insert_entry would find for the key: the descent of
\* insert_into_nonfull_node, then the scan of the leaf
RECURSIVE IxLookup(_, _, _, _)
IxLookup(nodes, ph, key_val, fuel) ==
  LET none == [found |-> FALSE, page |-> 0, index |-> 0]
      at(fi) ==
        IF fi.res # "Ok" THEN none
        ELSE IF nodes[ph].is_leaf
        THEN IF fi.is_dup
             THEN [found |-> TRUE, page |-> ph, index |-> fi.prev_index]
             ELSE none
        ELSE IF fuel = 0 THEN none
        ELSE IF fi.prev_index = BEGINNING_OF_SLOT
        THEN IxLookup(nodes, nodes[ph].num1, key_val, fuel - 1)
        ELSE IxLookup(nodes, nodes[ph].entries[fi.prev_index].page_num,
                      key_val, fuel - 1)
  IN IF ph \notin DOMAIN nodes THEN none
     ELSE IF nodes[ph].kind # "node" THEN none
     ELSE at(find_node_insert_index(key_val, nodes[ph]))

\* the rid of the New entry the tree holds for the key, NoIxRid if none
IxPrior(key_val) ==
  LET rid_of(l) ==
        IF l.found /\ ix.nodes[l.page].entries[l.index].et_type = "New"
        THEN RID_new(ix.nodes[l.page].entries[l.index].page_num,
                     ix.nodes[l.page].entries[l.index].slot_num)
        ELSE NoIxRid
  IN rid_of(IxLookup(ix.nodes, ix.root_ph, key_val, IxMaxPages))

\* the pages outside roots whose pin count in h2 is not the one in h1
PinsMoved(h1, h2, roots) ==
  {p \in DOMAIN h2.pins \ roots :
     h2.pins[p] # (IF p \in DOMAIN h1.pins THEN h1.pins[p] ELSE 0)}

\* call: the call just made, "failed" when a pool call of it failed or it
\* did not return; moved: the pages whose pin count the call has changed,
\* but for the root before and the root after the call
IxInsert(key_val, rid, f, ub) ==
  LET done(r, prior) ==
        ix' = [h |-> IF r.res \in Halts THEN ix.h ELSE r.st.h,
               nodes |-> IF r.res \in Halts THEN ix.nodes ELSE r.st.nodes,
               root_ph |-> IF r.res \in Halts THEN ix.root_ph
                           ELSE r.st.root_ph,
               header |-> ix.header,
               res |-> r.res,
               dup |-> IF f = IxMaxFetch /\ prior # NoIxRid /\ prior # rid
                       THEN [key |-> key_val, rid |-> rid, prior |-> prior]
                       ELSE NoDup,
               asc |-> IF ix.ascOk /\ f = IxMaxFetch /\ key_val = ix.asc + 1
                       THEN key_val ELSE 0,
               ascOk |-> ix.ascOk /\ f = IxMaxFetch /\ key_val = ix.asc + 1,
               pair |-> IF f = IxMaxFetch
                        THEN [stage |-> "ins", key |-> key_val, rid |-> rid]
                        ELSE NoPair,
               hist |-> IF ix.hist.phase = "opened" /\ f = IxMaxFetch
                        THEN [phase |-> "first",
                              live |-> {[key |-> key_val, rid |-> rid]}]
                        ELSE IF /\ ix.hist.phase = "ins"
                           /\ f = IxMaxFetch
                           /\ r.res = "Ok"
                           /\ \A e \in ix.hist.live : e.key # key_val
                        THEN [phase |-> "ins",
                              live |-> ix.hist.live
                                         \cup {[key |-> key_val,
                                                rid |-> rid]}]
                        ELSE NoHist,
               call |-> IF f = IxMaxFetch /\ r.res \notin Halts
                        THEN "insert_entry" ELSE "failed",
               moved |-> IF r.res \in Halts THEN {}
                         ELSE PinsMoved(ix.h, r.st.h,
                                        {ix.root_ph, r.st.root_ph}),
               del |-> NoDel]
  IN /\ IxRunning
     /\ ix.h.num_pages <= IxMaxPages
     /\ done(insert_entry(IxState(ix, f, ub), key_val, rid),
             IxPrior(key_val))
     /\ UNCHANGED <<bpVars, pf, rm>>

RECURSIVE KeysFrom(_, _, _)
\* the keys of the slots reached from start by next_slot
KeysFrom(node, start, fuel) ==
  IF start \notin DOMAIN node.entries \/ fuel = 0 THEN {}
  ELSE {node.keys[start]}
         \cup KeysFrom(node, node.entries[start].next_slot, fuel - 1)

\* the keys on the first_slot chains of the leaves
LeafKeys(nodes) ==
  UNION {KeysFrom(nodes[p], nodes[p].first_slot, Cardinality(DOMAIN nodes[p].entries)) :
           p \in {q \in DOMAIN nodes :
                     nodes[q].kind = "node" /\ nodes[q].is_leaf}}

RECURSIVE ChainItems(_, _, _)
\* key, kind and target of the slots reached from start by next_slot, in order
ChainItems(node, start, fuel) ==
  IF start \notin DOMAIN node.entries \/ fuel = 0 THEN <<>>
  ELSE <<[key |-> node.keys[start],
          et_type |-> node.entries[start].et_type,
          page_num |-> node.entries[start].page_num,
          slot_num |-> node.entries[start].slot_num]>>
         \o ChainItems(node, node.entries[start].next_slot, fuel - 1)

NodeItems(nodes, page, max_keys) ==
  IF page \notin DOMAIN nodes THEN <<>>
  ELSE ChainItems(nodes[page], nodes[page].first_slot, max_keys)

\* a leaf of the tree holds key_val on its first_slot chain as a New entry
\* whose target is rid
Stored(nodes, key_val, rid, max_keys) ==
  \E p \in DOMAIN nodes :
     /\ nodes[p].kind = "node"
     /\ nodes[p].is_leaf
     /\ \E i \in 1..Len(NodeItems(nodes, p, max_keys)) :
          NodeItems(nodes, p, max_keys)[i]
            = [key |-> key_val, et_type |-> "New",
               page_num |-> rid.page_num, slot_num |-> rid.slot_num]

\* every node has in nodes2 the first_slot chain, the free_slot chain and
\* the num_keys it has in nodes1
SameChains(nodes1, nodes2) ==
  /\ DOMAIN nodes1 = DOMAIN nodes2
  /\ \A p \in DOMAIN nodes1 :
       nodes1[p].kind = "node" =>
          /\ nodes2[p].kind = "node"
          /\ nodes2[p].first_slot = nodes1[p].first_slot
          /\ nodes2[p].free_slot = nodes1[p].free_slot
          /\ nodes2[p].num_keys = nodes1[p].num_keys
          /\ \A i \in DOMAIN nodes1[p].entries :
               nodes2[p].entries[i].next_slot = nodes1[p].entries[i].next_slot

\* del.miss: the delete_entry just made, with no pool call failing, was
\* given a key that no leaf holds ("absent") or a key held as a New entry
\* of another rid ("other"), or, the root being an internal node, a key
\* and rid that a leaf holds as a New entry ("stored"); del.kept: it left
\* the chains and num_keys of every node alone
IxDelete(key_val, rid, f) ==
  LET done(r) ==
        ix' = [h |-> IF r.res \in Halts THEN ix.h ELSE r.st.h,
               nodes |-> IF r.res \in Halts THEN ix.nodes ELSE r.st.nodes,
               root_ph |-> ix.root_ph,
               header |-> ix.header,
               res |-> r.res,
               dup |-> NoDup, asc |-> 0, ascOk |-> FALSE,
               pair |-> IF /\ f = IxMaxFetch
                           /\ ix.res = "Ok"
                           /\ ix.pair = [stage |-> "ins", key |-> key_val,
                                         rid |-> rid]
                        THEN [stage |-> "del", key |-> key_val, rid |-> rid]
                        ELSE NoPair,
               hist |-> IF /\ ix.hist.phase \in {"ins", "del"}
                           /\ f = IxMaxFetch
                           /\ ix.res = "Ok"
                           /\ [key |-> key_val, rid |-> rid] \in ix.hist.live
                        THEN [phase |-> "del",
                              live |-> ix.hist.live
                                         \ {[key |-> key_val, rid |-> rid]}]
                        ELSE NoHist,
               call |-> IF f = IxMaxFetch /\ r.res \notin Halts
                        THEN "delete_entry" ELSE "failed",
               moved |-> IF r.res \in Halts THEN {}
                         ELSE PinsMoved(ix.h, r.st.h, {ix.root_ph}),
               del |-> IF f # IxMaxFetch \/ r.res \in Halts THEN NoDel
                       ELSE [miss |-> IF key_val \notin LeafKeys(ix.nodes)
                                      THEN "absent"
                                      ELSE IF IxPrior(key_val)
                                                \notin {NoIxRid, rid}
                                      THEN "other"
                                      ELSE IF /\ ~ix.nodes[ix.root_ph].is_leaf
                                              /\ Stored(ix.nodes, key_val, rid,
                                                        ix.header.max_keys)
                                      THEN "stored" ELSE "none",
                             kept |-> SameChains(ix.nodes, r.st.nodes)]]
  IN /\ IxRunning
     /\ done(delete_entry(IxState(ix, f, Segv), key_val, rid))
     /\ UNCHANGED <<bpVars, pf, rm>>

\* a page as allocate_page hands it out, all bytes zero, read as a node
ZeroNode(max_keys) ==
  [kind |-> "node", is_leaf |-> FALSE, is_empty |-> FALSE,
   num_keys |-> 0, free_slot |-> 0, first_slot |-> 0,
   num1 |-> 0, num2 |-> 0,
   entries |-> [i \in 0..(max_keys - 1) |->
                  [et_type |-> "Unoccupied", page_num |-> 0,
                   slot_num |-> 0, next_slot |-> 0]],
   keys |-> [i \in 0..(max_keys - 1) |-> 0]]

\* IndexFileManager::open_file on the page file of st, the file opened and
\* its IndexFileHeader, st.header, read from the first page
open_file(st) ==
  LET allocated(st1, a) ==
        IF a.res # "Ok"
        THEN [st |-> [st1 EXCEPT !.h = a.h], res |-> "AllocatePageError"]
        ELSE [st |-> [st1 EXCEPT
                        !.h = a.h,
                        !.nodes = PutKey(st1.nodes, a.page,
                                         ZeroNode(st1.header.max_keys)),
                        !.root_ph = a.page],
              res |-> "Ok"]
      got(g) ==
        IF g.res # "Ok" THEN [st |-> st, res |-> "GetFirstPageError"]
        ELSE allocated(g.st, pfh_allocate_page(g.st.h, g.st.f > 0))
  IN got(ix_get_page(st, PageNum(0)))

\* the client lets go of its handle and opens the index file again
IxOpenFile(f) ==
  LET done(r) ==
        ix' = IF r.res # "Ok"
              THEN [ix EXCEPT !.h = r.st.h, !.res = r.res, !.dup = NoDup,
                              !.asc = 0, !.ascOk = FALSE, !.pair = NoPair,
                              !.hist = NoHist, !.call = "failed",
                              !.moved = {}, !.del = NoDel]
              ELSE [IndexHandle_new(r.st, r.st.root_ph) EXCEPT
                      !.call = "open_file", !.ascOk = FALSE,
                      !.hist = [phase |-> "opened", live |-> {}]]
  IN /\ IxRunning
     /\ ix.h.num_pages <= IxMaxPages
     /\ done(open_file(IxState(ix, f, Segv)))
     /\ UNCHANGED <<bpVars, pf, rm>>

IxNext ==
  \/ \E key_val \in IxKeys, rid \in IxRids, f \in IxFetches,
        ub \in UbOutcomes : IxInsert(key_val, rid, f, ub)
  \/ \E key_val \in IxKeys, rid \in IxRids, f \in IxFetches :
       IxDelete(key_val, rid, f)

SpecIX == IxInit /\ [][IxNext]_vars

\* The client of the second index specification holds the records of one
\* RID, meets no failure of the pool but on opening, and opens the index
\* file again at any time.
IxoNext ==
  \/ \E key_val \in IxKeys :
       IxInsert(key_val, RID_new(1, 1), IxMaxFetch, Segv)
  \/ \E key_val \in IxKeys : IxDelete(key_val, RID_new(1, 1), IxMaxFetch)
  \/ \E f \in IxFetches : IxOpenFile(f)

SpecIXO == IxInit /\ [][IxoNext]_vars

(***************************************************************************)
(* Index claims                                                            *)
(***************************************************************************)
IxNodes == {p \in DOMAIN ix.nodes : ix.nodes[p].kind = "node"}

RECURSIVE SlotChain(_, _, _)
\* the slots reached from start by next_slot
SlotChain(entries, start, fuel) ==
  IF start \notin DOMAIN entries \/ fuel = 0 THEN {}
  ELSE {start} \cup SlotChain(entries, entries[start].next_slot, fuel - 1)

RECURSIVE ChainKeys(_, _, _)
\* the keys of the slots reached from start by next_slot, in turn
ChainKeys(node, start, fuel) ==
  IF start \notin DOMAIN node.entries \/ fuel = 0 THEN <<>>
  ELSE <<node.keys[start]>>
         \o ChainKeys(node, node.entries[start].next_slot, fuel - 1)

\* C7: in every index node the slots on the first_slot chain and the slots
\* on the free_slot chain are disjoint and are together all of
\* [0, max_keys), after any calls of insert_entry and delete_entry.
C7_SlotChainsPartition ==
  \A p \in IxNodes :
     /\ SlotChain(ix.nodes[p].entries, ix.nodes[p].first_slot,
                  ix.header.max_keys)
          \cap SlotChain(ix.nodes[p].entries, ix.nodes[p].free_slot,
                         ix.header.max_keys) = {}
     /\ SlotChain(ix.nodes[p].entries, ix.nodes[p].first_slot,
                  ix.header.max_keys)
          \cup SlotChain(ix.nodes[p].entries, ix.nodes[p].free_slot,
                         ix.header.max_keys) = 0..(ix.header.max_keys - 1)

IsSorted(ks) == \A i \in 1..(Len(ks) - 1) : ks[i] <= ks[i + 1]

\* C8: the keys along the first_slot chain of every node are
\* non-decreasing, after any calls of insert_entry and delete_entry.
C8_ChainKeysSorted ==
  \A p \in IxNodes :
     IsSorted(ChainKeys(ix.nodes[p], ix.nodes[p].first_slot,
                        ix.header.max_keys))

RECURSIVE LeftmostLeaf(_, _, _)
\* the leaf reached from ph by first_child, 0 if there is none
LeftmostLeaf(nodes, ph, fuel) ==
  IF ph \notin DOMAIN nodes \/ fuel = 0 THEN 0
  ELSE IF nodes[ph].kind # "node" THEN 0
  ELSE IF nodes[ph].is_leaf THEN ph
  ELSE LeftmostLeaf(nodes, nodes[ph].num1, fuel - 1)

RECURSIVE LeafChain(_, _, _)
\* the leaves from ph on by next_page, as the key sequences of their chains
LeafChain(nodes, ph, fuel) ==
  IF ph \notin DOMAIN nodes \/ fuel = 0 THEN <<>>
  ELSE <<ChainKeys(nodes[ph], nodes[ph].first_slot,
                   Cardinality(DOMAIN nodes[ph].entries))>>
         \o LeafChain(nodes, nodes[ph].num2, fuel - 1)

RECURSIVE Flatten(_)
Flatten(seqs) ==
  IF seqs = <<>> THEN <<>> ELSE Head(seqs) \o Flatten(Tail(seqs))

IxLeaves ==
  LeafChain(ix.nodes, LeftmostLeaf(ix.nodes, ix.root_ph, IxMaxPages + 3),
            IxMaxPages + 3)

\* C9: while the keys 1..N, N = 3 * max_keys, are inserted in ascending
\* order into an empty index every insert_entry succeeds; after the N-th
\* the leaves from left to right hold exactly 1..N in order and every leaf
\* but the last holds between max_keys/2 and max_keys entries.
C9_AscendingInsertsFillLeaves ==
  (ix.ascOk /\ ix.asc >= 1 /\ ix.asc <= 3 * ix.header.max_keys) =>
     /\ ix.res = "Ok"
     /\ ix.asc = 3 * ix.header.max_keys =>
          /\ Flatten(IxLeaves) = [i \in 1..ix.asc |-> i]
          /\ \A i \in 1..(Len(IxLeaves) - 1) :
               /\ Len(IxLeaves[i]) >= ix.header.max_keys \div 2
               /\ Len(IxLeaves[i]) <= ix.header.max_keys

RECURSIVE BucketChainRids(_, _, _)
\* the rids on the first_slot chains of the buckets from ph on
BucketChainRids(nodes, ph, fuel) ==
  IF ph \notin DOMAIN nodes \/ fuel = 0 THEN {}
  ELSE IF nodes[ph].kind # "bucket" THEN {}
  ELSE {RID_new(nodes[ph].entries[i].page_num,
                nodes[ph].entries[i].slot_num) :
          i \in SlotChain(nodes[ph].entries, nodes[ph].first_slot,
                          Cardinality(DOMAIN nodes[ph].entries))}
         \cup BucketChainRids(nodes, nodes[ph].next_bucket, fuel - 1)

\* C10: after a key the tree holds with one rid is inserted with a second
\* rid, the leaf entry of the key is a Duplicate whose bucket chain stores
\* exactly the two rids.
C10_SecondRidMakesDuplicate ==
  ix.dup # NoDup =>
     LET holds(l) ==
           /\ l.found
           /\ ix.nodes[l.page].entries[l.index].et_type = "Duplicate"
           /\ BucketChainRids(ix.nodes,
                              ix.nodes[l.page].entries[l.index].page_num,
                              IxMaxPages + 3)
                = {ix.dup.prior, ix.dup.rid}
     IN holds(IxLookup(ix.nodes, ix.root_ph, ix.dup.key, IxMaxPages))

\* the rids the leaves hold for the key: the rid of a New entry, the rids of
\* the bucket chain of a Duplicate entry
RidsOfKey(key_val) ==
  UNION {IF ix.nodes[p].entries[i].et_type = "Duplicate"
         THEN BucketChainRids(ix.nodes, ix.nodes[p].entries[i].page_num,
                              IxMaxPages + 3)
         ELSE {RID_new(ix.nodes[p].entries[i].page_num,
                       ix.nodes[p].entries[i].slot_num)} :
           <<p, i>> \in {<<q, j>> \in IxNodes \X (0..(ix.header.max_keys - 1)) :
                           /\ ix.nodes[q].is_leaf
                           /\ j \in SlotChain(ix.nodes[q].entries,
                                              ix.nodes[q].first_slot,
                                              ix.header.max_keys)
                           /\ ix.nodes[q].keys[j] = key_val}}

\* C11: insert_entry(k, r) and the delete_entry(k, r) after it both succeed,
\* and after the delete_entry no leaf entry and no bucket entry of the key
\* k holds r.
C11_InsertThenDeleteRemoves ==
  /\ ix.pair.stage = "ins" => ix.res = "Ok"
  /\ ix.pair.stage = "del" =>
        /\ ix.res = "Ok"
        /\ ix.pair.rid \notin RidsOfKey(ix.pair.key)

IxLeafPages == {p \in IxNodes : ix.nodes[p].is_leaf}

RECURSIVE LeafPages(_, _, _)
\* the leaves from ph on by next_page, as page numbers
LeafPages(nodes, ph, fuel) ==
  IF ph \notin DOMAIN nodes \/ fuel = 0 THEN <<>>
  ELSE <<ph>> \o LeafPages(nodes, nodes[ph].num2, fuel - 1)

IxLeafList ==
  LeafPages(ix.nodes, LeftmostLeaf(ix.nodes, ix.root_ph, IxMaxPages + 3),
            IxMaxPages + 3)

\* C12: after any calls of insert_entry and delete_entry, every leaf whose
\* next_page is not 0 has a live leaf there whose prev_page is the leaf
\* itself, and following next_page from the leftmost leaf visits every
\* leaf once, with the keys in non-decreasing order from left to right.
C12_LeafListConsistent ==
  /\ \A p \in IxLeafPages :
        ix.nodes[p].num2 # NO_MORE_PAGES =>
           /\ ix.nodes[p].num2 \in IxLeafPages
           /\ ix.nodes[ix.nodes[p].num2].num1 = p
  /\ SeqSet(IxLeafList) = IxLeafPages
  /\ Len(IxLeafList) = Cardinality(IxLeafPages)
  /\ IsSorted(Flatten(IxLeaves))

\* C13: while distinct keys are inserted into an empty index and then
\* deleted in any order, every delete_entry succeeds; when the last of them
\* is deleted the root is a leaf with num_keys = 0 and the leaf list has
\* one leaf.
C13_DeleteAllEmptiesTree ==
  ix.hist.phase = "del" =>
     /\ ix.res = "Ok"
     /\ ix.hist.live = {} =>
          /\ ix.nodes[ix.root_ph].is_leaf
          /\ ix.nodes[ix.root_ph].num_keys = 0
          /\ Len(IxLeafList) = 1

\* the keys on the first_slot chain of the node in page
NodeKeys(nodes, page, max_keys) ==
  IF page \notin DOMAIN nodes THEN <<>>
  ELSE ChainKeys(nodes[page], nodes[page].first_slot, max_keys)

\* The client of the third index specification fills a root leaf of
\* IxWideKeys slots with keys of 1..IxWideKeys + 1 under one RID and meets
\* no failure of the pool.
IxWideKeys == 3

IxsKeys == 1..(IxWideKeys + 1)

IxsInit ==
  /\ ix = IxOpen([max_keys |-> IxWideKeys,
                  max_bucket_entries |-> max_bucket_entries])
  /\ bm = BufferManager_new
  /\ disk = [o \in Offsets |-> 0]
  /\ ev = NoEv
  /\ expect = NoExpect
  /\ lastGet = NoGet
  /\ trace = NoTrace
  /\ pf = Idle
  /\ rm = Idle

IxsNext ==
  \/ \E key_val \in IxsKeys : IxInsert(key_val, RID_new(1, 1), IxMaxFetch, Segv)
  \/ \E key_val \in IxsKeys : IxDelete(key_val, RID_new(1, 1), IxMaxFetch)

SpecIXS == IxsInit /\ [][IxsNext]_vars

\* C30: an insert_entry into a root leaf that holds exactly max_keys distinct
\* keys splits the leaf: the key promoted to the parent is the key at sorted
\* position max_keys/2, the old node keeps the max_keys/2 smaller keys, and
\* the new node receives the remaining entries with their keys, kinds and
\* targets in order, none lost and none twice.
C30_SplitStep ==
  LET mk == ix.header.max_keys
      old == ix.root_ph
      items == NodeItems(ix.nodes, old, mk + 1)
      had(e) == \E i \in 1..Len(items) : items[i].key = e.key
  IN (/\ ix.res \notin Halts
      /\ ix.nodes[old].is_leaf
      /\ ix.nodes[old].num_keys = mk
      /\ Len(items) = mk
      /\ \A i \in 1..(mk - 1) : items[i].key < items[i + 1].key
      /\ ix'.pair.stage = "ins"
      /\ \A i \in 1..mk : items[i].key # ix'.pair.key)
     => /\ ix'.res \notin Halts
        /\ ix'.root_ph # old
        /\ ~ix'.nodes[ix'.root_ph].is_leaf
        /\ NodeKeys(ix'.nodes, ix'.root_ph, mk + 1)
              = <<items[(mk \div 2) + 1].key>>
        /\ SelectSeq(NodeItems(ix'.nodes, old, mk + 1), had)
              = SubSeq(items, 1, mk \div 2)
        /\ SelectSeq(NodeItems(ix'.nodes, ix'.nodes[old].num2, mk + 1), had)
              = SubSeq(items, (mk \div 2) + 1, mk)

C30_RootLeafSplitsInHalves == [][C30_SplitStep]_vars

\* C24: the tree of an index just opened has a root that is a leaf with
\* num_keys = 0, so that the first insert_entry puts its key in that root
\* leaf.
C24_OpenedRootIsEmptyLeaf ==
  /\ ix.call = "open_file" =>
       /\ ix.nodes[ix.root_ph].is_leaf
       /\ ix.nodes[ix.root_ph].num_keys = 0
  /\ ix.hist.phase = "first" =>
       /\ ix.res = "Ok"
       /\ ix.nodes[ix.root_ph].is_leaf
       /\ \E e \in ix.hist.live :
            NodeKeys(ix.nodes, ix.root_ph, ix.header.max_keys) = <<e.key>>

\* C31: delete_from_node goes down into first_child when the key comes
\* before every separator of the node and else into the target page of the
\* entry the keyed scan finds, so that in a tree of height above 1
\* delete_entry(k, rid) reaches the leaf that holds k and succeeds for
\* every (k, rid) stored.
C31_DeleteOfStoredEntrySucceeds ==
  ix.del.miss = "stored" => ix.res = "Ok" /\ ~ix.del.kept

\* C32: after split_node the entry of the parent that receives the promoted
\* key is marked occupied and its target page is the page of the new node,
\* so that a later descent for a key at or above the promoted key reaches
\* the new node.  Checked where insert_entry splits the root: the parent is
\* the new root and the new node a page the call has allocated.
C32_RootSplitStep ==
  (/\ ix.res \notin Halts
   /\ ix'.res \notin Halts
   /\ ix'.root_ph # ix.root_ph)
     => LET items == NodeItems(ix'.nodes, ix'.root_ph, ix.header.max_keys)
        IN /\ Len(items) = 1
           /\ items[1].et_type # "Unoccupied"
           /\ items[1].page_num
                 \in (DOMAIN ix'.nodes \ DOMAIN ix.nodes) \ {ix'.root_ph}
           /\ ix'.nodes[items[1].page_num].kind = "node"
           /\ \A k \in KeysFrom(ix'.nodes[items[1].page_num],
                                ix'.nodes[items[1].page_num].first_slot,
                                ix.header.max_keys) : k >= items[1].key

C32_SplitSetsParentTarget == [][C32_RootSplitStep]_vars

\* C33: insert_entry and delete_entry read and write the payload of a node
\* or bucket only while the page has pin_count >= 1: the page that
\* create_new_node hands to split_node when the root is full, and the page
\* that create_new_bucket hands to insert_into_bucket when a leaf holds a
\* New entry, are pinned when they are handed over.
C33_CreatedPagesArePinned ==
  LET st == IxState(ix, IxMaxFetch, Segv)
      pinned(c) == c.res = "Ok" => c.st.h.pins[c.page] >= 1
  IN (ix.res \notin Halts /\ ix.h.num_pages <= IxMaxPages)
       => /\ ix.nodes[ix.root_ph].num_keys = ix.header.max_keys
               => pinned(create_new_node(st, ix.nodes[ix.root_ph].is_leaf))
          /\ (\E key_val \in IxKeys, rid \in IxRids :
                 Stored(ix.nodes, key_val, rid, ix.header.max_keys))
               => pinned(create_new_bucket(st))

\* The client of the fourth index specification is handed an index whose
\* root leaf holds key 1 as a Duplicate entry: the bucket of the entry holds
\* the two rids that the New branch of insert_into_nonfull_node gives it, in
\* buckets of IxbBucketEntries slots.  The client inserts and deletes rids of
\* that key and meets no failure of the pool.
IxbBucketEntries == 3

IxbFile(rid, prior) ==
  LET opened == IxOpen([max_keys |-> IxMaxKeys,
                        max_bucket_entries |-> IxbBucketEntries])
      leaf(node, bucket_ph) ==
        [leaf_insert_new(node, BEGINNING_OF_SLOT, 1, prior) EXCEPT
           !.entries[node.free_slot].et_type = "Duplicate",
           !.entries[node.free_slot].page_num = bucket_ph]
      filed(c) ==
        IndexHandle_new(
          [c.st EXCEPT
             !.nodes[opened.root_ph] = leaf(@, c.page),
             !.nodes[c.page] = bucket_put(bucket_put(@, rid), prior)],
          opened.root_ph)
  IN filed(create_new_bucket(IxState(opened, IxMaxFetch, Segv)))

IxbInit ==
  /\ \E rid \in IxRids, prior \in IxRids :
        rid # prior /\ ix = IxbFile(rid, prior)
  /\ bm = BufferManager_new
  /\ disk = [o \in Offsets |-> 0]
  /\ ev = NoEv
  /\ expect = NoExpect
  /\ lastGet = NoGet
  /\ trace = NoTrace
  /\ pf = Idle
  /\ rm = Idle

IxbNext ==
  \/ \E rid \in IxRids : IxInsert(1, rid, IxMaxFetch, Segv)
  \/ \E rid \in IxRids : IxDelete(1, rid, IxMaxFetch)

SpecIXB == IxbInit /\ [][IxbNext]_vars

RECURSIVE BucketChain(_, _, _)
\* the pages of the bucket chain that starts at page, in next_bucket order
BucketChain(nodes, page, fuel) ==
  IF page = NO_MORE_PAGES \/ page \notin DOMAIN nodes \/ fuel = 0 THEN <<>>
  ELSE IF nodes[page].kind # "bucket" THEN <<>>
  ELSE <<page>> \o BucketChain(nodes, nodes[page].next_bucket, fuel - 1)

RECURSIVE BucketRids(_, _, _)
\* the rids of the slots reached from start by next_slot, in order
BucketRids(bucket, start, fuel) ==
  IF start \notin DOMAIN bucket.entries \/ fuel = 0 THEN <<>>
  ELSE <<RID_new(bucket.entries[start].page_num,
                 bucket.entries[start].slot_num)>>
         \o BucketRids(bucket, bucket.entries[start].next_slot, fuel - 1)

\* how many slots of the first_slot chain of the bucket hold the rid
RidCount(bucket, rid) ==
  LET rids == BucketRids(bucket, bucket.first_slot,
                         Cardinality(DOMAIN bucket.entries))
  IN Cardinality({i \in 1..Len(rids) : rids[i] = rid})

\* the bucket page of the Duplicate entry the tree holds for the key, 0 if
\* the tree holds no such entry
BucketHead(nodes, root_ph, key_val) ==
  LET head(l) ==
        IF l.found /\ nodes[l.page].entries[l.index].et_type = "Duplicate"
        THEN nodes[l.page].entries[l.index].page_num
        ELSE NO_MORE_PAGES
  IN head(IxLookup(nodes, root_ph, key_val, IxMaxPages))

\* C34: insert_into_bucket stores the rid in the first bucket of the chain,
\* counted from the head, that has a free slot, and allocates no page then;
\* when no bucket of the chain has a free slot it links a fresh bucket as
\* the next_bucket of the tail and stores the rid there.
C34_BucketInsertStep ==
  LET head == BucketHead(ix.nodes, ix.root_ph, ix'.pair.key)
      chain == BucketChain(ix.nodes, head, IxMaxPages + 1)
      free == {i \in 1..Len(chain) :
                 ix.nodes[chain[i]].num_keys < ix.header.max_bucket_entries}
      first == CHOOSE i \in free : \A j \in free : i <= j
      stored(p) ==
        RidCount(ix'.nodes[p], ix'.pair.rid)
          = RidCount(ix.nodes[p], ix'.pair.rid) + 1
  IN (/\ ix.res \notin Halts
      /\ ix'.res \notin Halts
      /\ ix'.pair.stage = "ins"
      /\ head # NO_MORE_PAGES)
     => IF free # {}
        THEN /\ stored(chain[first])
             /\ DOMAIN ix'.nodes = DOMAIN ix.nodes
        ELSE \E b \in DOMAIN ix'.nodes \ DOMAIN ix.nodes :
                /\ ix'.nodes[chain[Len(chain)]].next_bucket = b
                /\ RidCount(ix'.nodes[b], ix'.pair.rid) = 1

RECURSIVE ChainTotal(_, _, _)
ChainTotal(nodes, page, fuel) ==
  IF page = NO_MORE_PAGES \/ page \notin DOMAIN nodes \/ fuel = 0 THEN 0
  ELSE Len(BucketRids(nodes[page], nodes[page].first_slot,
                      Cardinality(DOMAIN nodes[page].entries)))
         + ChainTotal(nodes, nodes[page].next_bucket, fuel - 1)

C36_NumKeysCountsChain ==
  \A p \in DOMAIN ix.nodes :
     ix.nodes[p].num_keys
       = IF ix.nodes[p].kind = "node"
         THEN Len(NodeItems(ix.nodes, p, ix.header.max_keys + 1))
         ELSE Len(BucketRids(ix.nodes[p], ix.nodes[p].first_slot,
                             ix.header.max_bucket_entries + 1))

\* C25: delete_entry of a key that the leaf does not hold, or holds as a
\* New entry of another rid, fails with InvalidEntry and leaves the
\* first_slot chain, the free_slot chain and num_keys of every node as
\* they were.
C25_DeleteOfMissingEntryRejected ==
  ix.del.miss \in {"absent", "other"} =>
     /\ ix.res = "InvalidEntry"
     /\ ix.del.kept

\* C23: when insert_entry or delete_entry returns, every page it pinned has
\* been unpinned exactly once: every page that is not the root has the pin
\* count it had before the call (0 for a page the call allocated).
C23_CallsLeavePinsBalanced ==
  ix.call \in {"insert_entry", "delete_entry"} => ix.moved = {}

(***************************************************************************)
(* Buffer pool replacement specification: callers pin, unpin and mark      *)
(* dirty the pages of a file through a pool of LruCap frames; no read or   *)
(* write of the file fails.                                                *)
(***************************************************************************)
\* frames in the pool at construction
LruCap == 3
\* page slots of the file: 1..LruMaxSlot
LruMaxSlot == 4
\* get_page is not called on a frame whose pin_count has reached LruMaxPin
LruMaxPin == 2
\* callers mark dirty the pages of the slots 1..LruDirtySlots
LruDirtySlots == 1

LruPages == {PageNum(s) : s \in 1..LruMaxSlot}

BufferManager_with(cap) ==
  [buffer_table |-> [i \in 0..(cap - 1) |->
                       IF i < cap - 1
                       THEN [BufferPage_new EXCEPT !.next = i + 1]
                       ELSE BufferPage_new],
   cap |-> cap,
   num_pages |-> 0,
   first |-> -1,
   last |-> -1,
   free |-> 0,
   page_table |-> <<>>]

LruInit ==
  /\ bm = BufferManager_with(LruCap)
  /\ disk = [o \in {get_page_offset(s) : s \in 1..LruMaxSlot} |-> 0]
  /\ ev = NoEv
  /\ expect = NoExpect
  /\ lastGet = NoGet
  /\ trace = NoTrace
  /\ pf = Idle
  /\ rm = Idle
  /\ ix = Idle

\* the resident pages with pin_count 0
Unpinned(b) ==
  {p \in DOMAIN b.page_table : b.buffer_table[b.page_table[p]].pin_count = 0}

LruGetPage(p) ==
  LET returned(r) ==
        /\ bm' = IF r.res = "panic" THEN [r.bm EXCEPT !.cap = 0] ELSE r.bm
        /\ disk' = r.disk
        /\ trace' =
             [call |-> [op |-> "get", page |-> p, res |-> r.res,
                        index |-> r.index,
                        resident |-> p \in DOMAIN bm.page_table,
                        freeEmpty |-> bm.free = -1,
                        allPinned |->
                          /\ Unpinned(bm) = {}
                          /\ Cardinality(DOMAIN bm.page_table) = bm.cap,
                        lruHead |-> IF trace.order = <<>> THEN 0
                                    ELSE Head(trace.order),
                        evicted |-> (DOMAIN bm.page_table)
                                      \ (DOMAIN r.bm.page_table),
                        cap |-> bm.cap],
              order |-> SelectSeq(trace.order,
                                  LAMBDA q : q \in Unpinned(r.bm))]
  IN /\ BpRunning
     /\ p \in DOMAIN bm.page_table =>
          bm.buffer_table[bm.page_table[p]].pin_count < LruMaxPin
     /\ \E v \in BufRead(IF bm.last \in DOMAIN bm.buffer_table
                         THEN bm.buffer_table[bm.last].data ELSE Null) :
          returned(get_page(bm, disk, p, "Okay", "Okay", v))
     /\ UNCHANGED <<ev, expect, lastGet, pf, rm, ix>>

LruUnpin(p) ==
  /\ BpRunning
  /\ bm' = unpin(bm, p)
  /\ trace' = [call |-> NoCall,
               order |-> IF p \in Unpinned(unpin(bm, p)) \ Unpinned(bm)
                         THEN Append(trace.order, p) ELSE trace.order]
  /\ UNCHANGED <<disk, ev, expect, lastGet, pf, rm, ix>>

\* a caller that holds a pin on p marks it dirty
LruMarkDirty(p) ==
  /\ BpRunning
  /\ p \in DOMAIN bm.page_table
  /\ bm.buffer_table[bm.page_table[p]].pin_count > 0
  /\ ~bm.buffer_table[bm.page_table[p]].dirty
  /\ bm' = mark_dirty(bm, bm.page_table[p])
  /\ trace' = [trace EXCEPT !.call = NoCall]
  /\ UNCHANGED <<disk, ev, expect, lastGet, pf, rm, ix>>

LruNext ==
  \/ \E p \in LruPages : LruGetPage(p)
  \/ \E p \in LruPages : LruUnpin(p)
  \/ \E p \in {PageNum(s) : s \in 1..LruDirtySlots} : LruMarkDirty(p)

SpecLRU == LruInit /\ [][LruNext]_vars

(***************************************************************************)
(* Buffer pool replacement claims                                          *)
(***************************************************************************)
\* C14: when get_page is called for a page that is not resident while the
\* free list is empty and some resident frame has pin_count 0, the page
\* evicted is the one whose pin_count dropped to 0 least recently.
C14_EvictsLeastRecentlyUnpinned ==
  (/\ trace.call.op = "get"
   /\ ~trace.call.resident
   /\ trace.call.freeEmpty
   /\ trace.call.lruHead # 0)
     => trace.call.evicted = {trace.call.lruHead}

\* C15: with no read or write of the file failing, get_page returns a frame
\* of the frame table that holds the page asked for with pin_count >= 1,
\* whatever frames the pool held before; it never fails and never indexes
\* the frame table outside of it.
C15_GetPageReturnsPinnedFrame ==
  trace.call.op = "get" =>
     /\ trace.call.res = "Some"
     /\ trace.call.index \in DOMAIN bm.buffer_table
     /\ trace.call.page \in DOMAIN bm.page_table
     /\ bm.page_table[trace.call.page] = trace.call.index
     /\ bm.buffer_table[trace.call.index].page_num = trace.call.page
     /\ bm.buffer_table[trace.call.index].pin_count >= 1

\* C16: when every frame is pinned (the free list and the unused list are
\* empty), get_page of a page that is not resident doubles the capacity of
\* the pool, returns the page pinned in the first new frame, links the other
\* new frames onto the free list, and leaves the page id, pin_count and
\* dirty bit of every frame of the pool as they were.
C16_GrowthKeepsPinnedFrames ==
  [][(/\ trace'.call.op = "get"
      /\ trace'.call.allPinned
      /\ ~trace'.call.resident)
       => /\ bm'.cap = 2 * bm.cap
          /\ DOMAIN bm'.buffer_table = 0..(2 * bm.cap - 1)
          /\ trace'.call.res = "Some"
          /\ trace'.call.index = bm.cap
          /\ bm'.page_table[trace'.call.page] = bm.cap
          /\ bm'.buffer_table[bm.cap].page_num = trace'.call.page
          /\ bm'.buffer_table[bm.cap].pin_count = 1
          /\ FreeSet(bm') = (bm.cap + 1)..(2 * bm.cap - 1)
          /\ bm'.first = -1 /\ bm'.last = -1
          /\ \A i \in DOMAIN bm.buffer_table :
               /\ bm'.buffer_table[i].page_num = bm.buffer_table[i].page_num
               /\ bm'.buffer_table[i].pin_count = bm.buffer_table[i].pin_count
               /\ bm'.buffer_table[i].dirty = bm.buffer_table[i].dirty]_vars

C16_Witness_GrownWithDirtyFrame ==
  /\ trace.call.op = "get"
  /\ trace.call.allPinned
  /\ ~trace.call.resident
  /\ bm.cap = 2 * LruCap
  /\ \E i \in 0..(LruCap - 1) :
       bm.buffer_table[i].dirty /\ bm.buffer_table[i].pin_count = 2

\* C37: get_page of a page that is resident with pin_count >= 1, exactly 1
\* included, adds one to its pin_count and leaves the LRU list as it was:
\* first, last and the prev and next of every other frame are unchanged.
C37_PinnedGetStep ==
  (/\ trace'.call.op = "get"
   /\ trace'.call.page \in DOMAIN bm.page_table
   /\ bm.buffer_table[bm.page_table[trace'.call.page]].pin_count >= 1)
     => LET index == bm.page_table[trace'.call.page]
        IN /\ bm'.buffer_table[index].pin_count
                = bm.buffer_table[index].pin_count + 1
           /\ bm'.first = bm.first
           /\ bm'.last = bm.last
           /\ \A j \in (DOMAIN bm.buffer_table) \ {index} :
                 /\ bm'.buffer_table[j].prev = bm.buffer_table[j].prev
                 /\ bm'.buffer_table[j].next = bm.buffer_table[j].next

C37_PinnedGetKeepsLruList == [][C37_PinnedGetStep]_vars
====
